---- MODULE Spec2Model ----
(***************************************************************************)
(* Appointment booking and billing engine of the clinic system.            *)
(*                                                                         *)
(* The database tables are the state: appointments, orders, ledger,        *)
(* reminders, service credits, the patients' cached creditBalance and the  *)
(* audit log.  Row ids are positions in the table's sequence.  Instants    *)
(* are counted in half hours from a local midnight (an odd instant is on   *)
(* the half hour); durationMinutes is counted in the same unit.            *)
(***************************************************************************)
EXTENDS Integers, Sequences, FiniteSets, TLC

(***************************************************************************)
(* Bounds of the model.                                                    *)
(***************************************************************************)
\* operations that may commit in the lifecycle specification
MaxOps == 4
\* appointments that may exist in the lifecycle specification
MaxAppts == 2
\* bundle purchases that may commit in the lifecycle specification
MaxPurchases == 1
\* operations that may commit on top of a seeded slot (capacity specification)
MaxCapOps == 3
\* concurrent createAppointment transactions (concurrency specification)
NumProcs == 2
\* billing requests served in the billing specification
MaxBillOps == 3
\* payment and waiver requests served in the ledger specification
MaxLedgerOps == 2
\* calls served in the account specification
MaxAccountOps == 3
\* the instant, in half hours, from which the cron specification keeps the hour
CronHorizon == 56
\* the last instant of the intervals of the overlap specification
MaxInstant == 4

(***************************************************************************)
(* Program constants and reference data.                                   *)
(***************************************************************************)
\* booking.js:46  if (globalCount >= 6)
GlobalCapacity == 6
\* an argument that was not supplied (finalPrice, amountPaid, recurrenceId)
undefined == -1

Patients == {1, 2}
Doctors == 1 .. (GlobalCapacity + 1)
\* session_types rows: id 1 and 2; id 3 is the id of no row
SessionTypeIds == {1, 2}
durationMinutes == <<1, 3>>
price == <<150, 175>>
\* bundles rows: bundle 1 is active, bundle 2 is not
BundleIds == {1, 2}
bundles == <<[price |-> 250, active |-> TRUE,
              items |-> <<[sessionTypeId |-> 1, quantity |-> 2]>>],
             [price |-> 300, active |-> FALSE,
              items |-> <<[sessionTypeId |-> 2, quantity |-> 1]>>]>>

\* requested start instants: 04:30, 05:00 and 05:30 of the second day
Starts == {57, 58, 59}
\* instants at which the clock is observed
Clock == {0, 40, 70}

VARIABLES
    appts,          \* appointments table
    orders,         \* orders table
    ledger,         \* ledger table (append-only)
    reminders,      \* reminders table
    serviceCredits, \* service_credits table
    creditBalance,  \* patients.creditBalance
    audit,          \* audit_logs table
    now,            \* the clock
    last,           \* the last call and its outcome
    txs,            \* open transactions (concurrency specifications)
    req             \* the body of the last billing request (billing specifications)

vars == <<appts, orders, ledger, reminders, serviceCredits, creditBalance,
          audit, now, last, txs, req>>

billing == <<orders, ledger, reminders, serviceCredits, creditBalance>>

(***************************************************************************)
(* Helpers.                                                                *)
(***************************************************************************)
Min(a, b) == IF a < b THEN a ELSE b

\* the message of the Error createAppointment throws
CreateErrorMessage(outcome) ==
    IF outcome = "CapacityExceeded"
    THEN "Capacity reached for this time slot (6 appointments max)."
    ELSE IF outcome = "ProviderConflict"
    THEN "Doctor already has an appointment during this time."
    ELSE IF outcome = "NotFound"
    THEN "Session type not found"
    ELSE ""

\* the outcome record of a call; a failed create carries its message
Call(op, result, id, doctorId, startAt, endAt) ==
    [op |-> op, result |-> result, id |-> id, doctorId |-> doctorId,
     startAt |-> startAt, endAt |-> endAt,
     message |-> IF op = "create" THEN CreateErrorMessage(result) ELSE ""]

NoCall == Call("none", "ok", 0, 0, 0, 0)

\* the body of a billing request: the patient and order it names, its
\* finalPrice or amount, and its payment method
Req(n, patientId, orderId, amount, method) ==
    [n |-> n, patientId |-> patientId, orderId |-> orderId, amount |-> amount,
     method |-> method]

\* the body of a create request
CreateReq(n, patientId, doctorId, startAt, sessionTypeId) ==
    [n |-> n, patientId |-> patientId, doctorId |-> doctorId,
     startAt |-> startAt, sessionTypeId |-> sessionTypeId]

\* no billing request served yet
NoReq == Req(0, 0, 0, 0, "none")

AuditRow(action, targetType, targetId) ==
    [action |-> action, targetType |-> targetType, targetId |-> targetId]

(***************************************************************************)
(* createAppointment: the capacity checks.                                 *)
(***************************************************************************)
\* a plausible slip: the upper bounds of the first two clauses swapped, so
\* that an interval ending where the other starts is taken for a conflict
ConflictsInclusive(a, start, end) ==
    \/ (a.startAt >= start /\ a.startAt <= end)
    \/ (a.endAt > start /\ a.endAt < end)
    \/ (a.startAt <= start /\ a.endAt >= end)

\* the three-clause OR filter of the two capacity queries
Conflicts(a, start, end) ==
    \/ (a.startAt >= start /\ a.startAt < end)
    \/ (a.endAt > start /\ a.endAt <= end)
    \/ (a.startAt <= start /\ a.endAt >= end)

\* a plausible slip: cancelled appointments counted as well
GlobalCountWithCancelled(db, start, end) ==
    Cardinality({i \in DOMAIN db : Conflicts(db[i], start, end)})

\* tx.appointment.count of the global capacity check
GlobalCount(db, start, end) ==
    Cardinality({i \in DOMAIN db :
        db[i].status # "cancelled" /\ Conflicts(db[i], start, end)})

\* a plausible slip: the doctor filter compares start instants only
DoctorConflictsSameStart(db, doctorId, start, end) ==
    \E i \in DOMAIN db :
        /\ db[i].doctorId = doctorId
        /\ db[i].status # "cancelled"
        /\ db[i].startAt = start

\* tx.appointment.findFirst of the doctor availability check
DoctorConflicts(db, doctorId, start, end) ==
    \E i \in DOMAIN db :
        /\ db[i].doctorId = doctorId
        /\ db[i].status # "cancelled"
        /\ Conflicts(db[i], start, end)

\* the row tx.appointment.create inserts
NewAppointment(patientId, doctorId, start, end, sessionTypeId, recurrenceId) ==
    [patientId |-> patientId, doctorId |-> doctorId, startAt |-> start,
     endAt |-> end, status |-> "scheduled", sessionTypeId |-> sessionTypeId,
     finalPrice |-> undefined, recurrenceId |-> recurrenceId]

\* a plausible slip: the doctor check made before the global check
CreateOutcomeDoctorFirst(db, doctorId, start, end) ==
    IF DoctorConflicts(db, doctorId, start, end) THEN "ProviderConflict"
    ELSE IF GlobalCount(db, start, end) >= GlobalCapacity THEN "CapacityExceeded"
    ELSE "ok"

\* the order of the two checks inside the transaction
CreateOutcome(db, doctorId, start, end) ==
    IF GlobalCount(db, start, end) >= GlobalCapacity THEN "CapacityExceeded"
    ELSE IF DoctorConflicts(db, doctorId, start, end) THEN "ProviderConflict"
    ELSE "ok"

\* a plausible slip: the start normalised to the hour boundary
StartOfHour(startAt) == 2 * (startAt \div 2)

\* const start = new Date(startAt): the requested instant as it is
RequestedStart(startAt) == startAt

\* the transaction of createAppointment: the two checks, the appointment
\* and its audit row
CreateTransaction(patientId, doctorId, start, end, sessionTypeId, recurrenceId) ==
    LET outcome == CreateOutcome(appts, doctorId, start, end)
    IN  IF outcome # "ok"
        THEN /\ last' = Call("create", outcome, 0, doctorId, start, end)
             /\ UNCHANGED <<appts, billing, audit, now, txs>>
        ELSE /\ appts' = Append(appts, NewAppointment(patientId, doctorId,
                                    start, end, sessionTypeId, recurrenceId))
             /\ audit' = Append(audit, AuditRow("appointment.create",
                                    "appointment", Len(appts) + 1))
             /\ last' = Call("create", "ok", Len(appts) + 1, doctorId, start, end)
             /\ UNCHANGED <<billing, now, txs>>

CreateAppointment(patientId, doctorId, startAt, sessionTypeId, recurrenceId) ==
    IF sessionTypeId \notin SessionTypeIds
    THEN /\ last' = Call("create", "NotFound", 0, doctorId, startAt, startAt)
         /\ UNCHANGED <<appts, billing, audit, now, txs>>
    ELSE
      LET start == RequestedStart(startAt)
          end == start + durationMinutes[sessionTypeId]
      IN  CreateTransaction(patientId, doctorId, start, end, sessionTypeId,
                            recurrenceId)

(***************************************************************************)
(* cancelAppointment.                                                      *)
(***************************************************************************)
\* what the payment rows of an order add up to
RECURSIVE PaidOn(_, _)
PaidOn(rows, orderId) ==
    IF rows = <<>> THEN 0
    ELSE (IF Head(rows).orderId = orderId /\ Head(rows).kind = "payment"
          THEN Head(rows).amount ELSE 0) + PaidOn(Tail(rows), orderId)

\* a plausible slip: the refund is what was paid, not what was due
RECURSIVE RefundsOfPaid(_, _, _)
RefundsOfPaid(os, k, appointmentId) ==
    IF k > Len(os) THEN <<>>
    ELSE IF /\ os[k].appointmentId = appointmentId
            /\ os[k].status \in {"paid", "partially_paid"}
         THEN <<[patientId |-> appts[appointmentId].patientId, orderId |-> k,
                 kind |-> "refund", amount |-> 0 - PaidOn(ledger, k),
                 method |-> "cash"]>> \o RefundsOfPaid(os, k + 1, appointmentId)
         ELSE RefundsOfPaid(os, k + 1, appointmentId)

\* the refund rows of the loop over updatedAppointment.orders
RECURSIVE Refunds(_, _, _)
Refunds(os, k, appointmentId) ==
    IF k > Len(os) THEN <<>>
    ELSE IF /\ os[k].appointmentId = appointmentId
            /\ os[k].status \in {"paid", "partially_paid"}
         THEN <<[patientId |-> appts[appointmentId].patientId, orderId |-> k,
                 kind |-> "refund", amount |-> 0 - os[k].totalDue,
                 method |-> "cash"]>> \o Refunds(os, k + 1, appointmentId)
         ELSE Refunds(os, k + 1, appointmentId)

\* tx.reminder.updateMany of cancelAppointment
FailPending(rs, appointmentId) ==
    [k \in DOMAIN rs |->
        IF rs[k].appointmentId = appointmentId /\ rs[k].status = "pending"
        THEN [rs[k] EXCEPT !.status = "failed"]
        ELSE rs[k]]

\* a plausible slip: the state guard missing
CancellableAlways(status) == TRUE

\* the state guard of cancelAppointment
Cancellable(status) == status # "completed"

CancelAppointment(appointmentId) ==
    IF appointmentId \notin DOMAIN appts
    THEN /\ last' = Call("cancel", "NotFound", appointmentId, 0, 0, 0)
         /\ UNCHANGED <<appts, billing, audit, now, txs>>
    ELSE IF ~Cancellable(appts[appointmentId].status)
    THEN /\ last' = Call("cancel", "InvalidState", appointmentId, 0, 0, 0)
         /\ UNCHANGED <<appts, billing, audit, now, txs>>
    ELSE /\ appts' = [appts EXCEPT ![appointmentId].status = "cancelled"]
         /\ reminders' = FailPending(reminders, appointmentId)
         /\ ledger' = ledger \o Refunds(orders, 1, appointmentId)
         /\ audit' = Append(audit, AuditRow("appointment.cancel",
                                "appointment", appointmentId))
         /\ last' = Call("cancel", "ok", appointmentId, 0, 0, 0)
         /\ UNCHANGED <<orders, serviceCredits, creditBalance, now, txs>>

(***************************************************************************)
(* confirmAppointment.                                                     *)
(***************************************************************************)
\* a plausible slip: the day_before reminder due 24 hours before the start
generateRemindersDayEarlier(appointmentId, startAt, t) ==
    LET dayBefore == startAt - 48
        twoHoursBefore == startAt - 4
    IN  (IF dayBefore > t
         THEN <<[appointmentId |-> appointmentId, type |-> "day_before",
                 dueAt |-> dayBefore, status |-> "pending"]>>
         ELSE <<>>)
        \o
        (IF twoHoursBefore > t
         THEN <<[appointmentId |-> appointmentId, type |-> "two_hours_before",
                 dueAt |-> twoHoursBefore, status |-> "pending"]>>
         ELSE <<>>)

\* the rows generateReminders inserts for an appointment confirmed at instant t
generateReminders(appointmentId, startAt, t) ==
    LET dayBefore == 48 * ((startAt \div 48) - 1) + 30
        twoHoursBefore == startAt - 4
    IN  (IF dayBefore > t
         THEN <<[appointmentId |-> appointmentId, type |-> "day_before",
                 dueAt |-> dayBefore, status |-> "pending"]>>
         ELSE <<>>)
        \o
        (IF twoHoursBefore > t
         THEN <<[appointmentId |-> appointmentId, type |-> "two_hours_before",
                 dueAt |-> twoHoursBefore, status |-> "pending"]>>
         ELSE <<>>)

LedgerRow(patientId, orderId, kind, amount, method) ==
    [patientId |-> patientId, orderId |-> orderId, kind |-> kind,
     amount |-> amount, method |-> method]

OrderRow(patientId, appointmentId, orderType, totalDue, status) ==
    [patientId |-> patientId, appointmentId |-> appointmentId,
     orderType |-> orderType, subtotal |-> totalDue, totalDue |-> totalDue,
     status |-> status]

\* the status the test suite expects confirmation to set
ConfirmedStatusExpected == "confirmed"

\* the status both branches of confirmAppointment write
ConfirmedStatus == "completed"

\* a plausible slip: any appointment that is not cancelled may be confirmed
ConfirmableNotCancelled(status) == status # "cancelled"

\* the state guard of confirmAppointment
Confirmable(status) == status = "scheduled"

\* const paidAmount = finalPrice || servicePrice
PaidAmount(finalPrice, servicePrice) ==
    IF finalPrice = undefined \/ finalPrice = 0 THEN servicePrice ELSE finalPrice

\* a plausible slip: the whole credit row consumed by one confirmation
DeductAll(credits, k) == [credits EXCEPT ![k].quantity = 0]

\* tx.serviceCredit.update: quantity: serviceCredit.quantity - 1
Deduct(credits, k) == [credits EXCEPT ![k].quantity = credits[k].quantity - 1]

\* a plausible slip: the whole balance consumed, whatever the price
CreditToUseAll(balance, effectivePrice) == balance

\* const creditToUse = Math.min(creditBalance, effectivePrice), when the
\* balance is positive
CreditToUse(balance, effectivePrice) ==
    IF balance > 0 THEN Min(balance, effectivePrice) ELSE 0

\* a plausible slip: the order and the charge made for the final price
OrderTotalFinal(finalPrice, servicePrice) == PaidAmount(finalPrice, servicePrice)

\* subtotal, totalDue and the charge amount: servicePrice
OrderTotal(finalPrice, servicePrice) == servicePrice

\* a plausible slip: the supplied final price stored on the appointment
FinalPriceSupplied(finalPrice, servicePrice) == PaidAmount(finalPrice, servicePrice)

\* finalPrice: servicePrice  // Keep service price unchanged
FinalPriceStored(finalPrice, servicePrice) == servicePrice

\* the service_credit branch, given the credit row findFirst returned
ConfirmWithServiceCredit(appointmentId, k) ==
    LET a == appts[appointmentId]
        servicePrice == price[a.sessionTypeId]
        orderId == Len(orders) + 1
    IN  /\ serviceCredits' = Deduct(serviceCredits, k)
        /\ appts' = [appts EXCEPT ![appointmentId].status = ConfirmedStatus,
                                  ![appointmentId].finalPrice = servicePrice]
        /\ orders' = Append(orders, OrderRow(a.patientId, appointmentId,
                                             "appointment", servicePrice, "paid"))
        /\ ledger' = ledger \o
              <<LedgerRow(a.patientId, orderId, "charge", servicePrice, "service_credit"),
                LedgerRow(a.patientId, orderId, "payment", servicePrice, "service_credit")>>
        /\ reminders' = reminders \o generateReminders(appointmentId, a.startAt, now)
        /\ audit' = Append(audit, AuditRow("appointment.confirm", "appointment",
                                           appointmentId))
        /\ last' = Call("confirm", "ok", appointmentId, 0, 0, 0)
        /\ UNCHANGED <<creditBalance, now, txs>>

\* the cash branch
ConfirmWithCash(appointmentId, finalPrice) ==
    LET a == appts[appointmentId]
        servicePrice == price[a.sessionTypeId]
        paidAmount == PaidAmount(finalPrice, servicePrice)
        balance == creditBalance[a.patientId]
        creditToUse == CreditToUse(balance, servicePrice)
        effectivePrice == servicePrice - creditToUse
        orderStatus == IF paidAmount < effectivePrice THEN "partially_paid" ELSE "paid"
        total == OrderTotal(finalPrice, servicePrice)
        orderId == Len(orders) + 1
    IN  /\ creditBalance' =
              [creditBalance EXCEPT ![a.patientId] = balance - creditToUse]
        /\ appts' = [appts EXCEPT ![appointmentId].status = ConfirmedStatus,
                                  ![appointmentId].finalPrice =
                                      FinalPriceStored(finalPrice, servicePrice)]
        /\ orders' = Append(orders, OrderRow(a.patientId, appointmentId,
                                             "appointment", total, orderStatus))
        /\ ledger' = ledger
              \o (IF creditToUse > 0
                  THEN <<LedgerRow(a.patientId, 0, "credit", 0 - creditToUse, "cash")>>
                  ELSE <<>>)
              \o <<LedgerRow(a.patientId, orderId, "charge", total, "cash")>>
              \o (IF paidAmount > 0
                  THEN <<LedgerRow(a.patientId, orderId, "payment", paidAmount, "cash")>>
                  ELSE <<>>)
        /\ reminders' = reminders \o generateReminders(appointmentId, a.startAt, now)
        /\ audit' = Append(audit, AuditRow("appointment.confirm", "appointment",
                                           appointmentId))
        /\ last' = Call("confirm", "ok", appointmentId, 0, 0, 0)
        /\ UNCHANGED <<serviceCredits, now, txs>>

ConfirmAppointment(appointmentId, finalPrice, paymentMethod) ==
    IF appointmentId \notin DOMAIN appts
    THEN /\ last' = Call("confirm", "NotFound", appointmentId, 0, 0, 0)
         /\ UNCHANGED <<appts, billing, audit, now, txs>>
    ELSE IF ~Confirmable(appts[appointmentId].status)
    THEN /\ last' = Call("confirm", "InvalidState", appointmentId, 0, 0, 0)
         /\ UNCHANGED <<appts, billing, audit, now, txs>>
    ELSE IF paymentMethod = "service_credit"
    THEN LET available == {k \in DOMAIN serviceCredits :
                 /\ serviceCredits[k].patientId = appts[appointmentId].patientId
                 /\ serviceCredits[k].sessionTypeId = appts[appointmentId].sessionTypeId
                 /\ serviceCredits[k].quantity > 0}
         IN  IF available = {}
             THEN /\ last' = Call("confirm", "InsufficientCredit", appointmentId, 0, 0, 0)
                  /\ UNCHANGED <<appts, billing, audit, now, txs>>
             ELSE \E k \in available : ConfirmWithServiceCredit(appointmentId, k)
    ELSE ConfirmWithCash(appointmentId, finalPrice)

(***************************************************************************)
(* PUT /:id/status and DELETE /:id/future (recurrences).                   *)
(***************************************************************************)
PutStatus(appointmentId, status) ==
    IF appointmentId \notin DOMAIN appts
    THEN /\ last' = Call("status", "NotFound", appointmentId, 0, 0, 0)
         /\ UNCHANGED <<appts, billing, audit, now, txs>>
    ELSE /\ appts' = [appts EXCEPT ![appointmentId].status = status]
         /\ audit' = Append(audit, AuditRow("appointment.status_update",
                                            "appointment", appointmentId))
         /\ last' = Call("status", "ok", appointmentId, 0, 0, 0)
         /\ UNCHANGED <<billing, now, txs>>

CancelFuture(recurrenceId) ==
    LET future(a) == a.recurrenceId = recurrenceId /\ a.startAt >= now
    IN  /\ appts' = [i \in DOMAIN appts |->
              IF future(appts[i]) /\ appts[i].status # "cancelled"
              THEN [appts[i] EXCEPT !.status = "cancelled"]
              ELSE appts[i]]
        /\ reminders' = [k \in DOMAIN reminders |->
              IF /\ future(appts[reminders[k].appointmentId])
                 /\ reminders[k].status = "pending"
              THEN [reminders[k] EXCEPT !.status = "failed"]
              ELSE reminders[k]]
        /\ audit' = Append(audit, AuditRow("recurrence.cancel_future",
                                           "recurrence", recurrenceId))
        /\ last' = Call("cancelFuture", "ok", recurrenceId, 0, 0, 0)
        /\ UNCHANGED <<orders, ledger, serviceCredits, creditBalance, now, txs>>

(***************************************************************************)
(* POST /:id/bundles/purchase.                                             *)
(***************************************************************************)
\* the loop over bundle.items: one service_credits row per item, merged into
\* the row of the same patient, session type and order when there is one
RECURSIVE AddCredits(_, _, _, _)
AddCredits(credits, items, patientId, orderId) ==
    IF items = <<>> THEN credits
    ELSE LET item == Head(items)
             existing == {k \in DOMAIN credits :
                 /\ credits[k].patientId = patientId
                 /\ credits[k].sessionTypeId = item.sessionTypeId
                 /\ credits[k].orderId = orderId}
             next == IF existing # {}
                     THEN LET k == CHOOSE k \in existing : TRUE
                          IN  [credits EXCEPT ![k].quantity =
                                   credits[k].quantity + item.quantity]
                     ELSE Append(credits, [patientId |-> patientId,
                                           sessionTypeId |-> item.sessionTypeId,
                                           quantity |-> item.quantity,
                                           orderId |-> orderId])
         IN  AddCredits(next, Tail(items), patientId, orderId)

PurchaseBundle(patientId, bundleId, amountPaid) ==
    IF bundleId \notin BundleIds
    THEN /\ last' = Call("purchase", "NotFound", 0, 0, 0, 0)
         /\ UNCHANGED <<appts, billing, audit, now, txs>>
    ELSE IF ~bundles[bundleId].active
    THEN /\ last' = Call("purchase", "InvalidState", 0, 0, 0, 0)
         /\ UNCHANGED <<appts, billing, audit, now, txs>>
    ELSE
      LET totalPrice == bundles[bundleId].price
          paid == IF amountPaid # undefined THEN amountPaid ELSE totalPrice
          orderStatus == IF paid < totalPrice THEN "partially_paid"
                         ELSE IF paid = 0 THEN "pending" ELSE "paid"
          orderId == Len(orders) + 1
      IN  /\ orders' = Append(orders, OrderRow(patientId, 0, "bundle",
                                               totalPrice, orderStatus))
          /\ ledger' = ledger
                \o <<LedgerRow(patientId, orderId, "charge", totalPrice, "cash")>>
                \o (IF paid > 0
                    THEN <<LedgerRow(patientId, orderId, "payment", paid, "cash")>>
                    ELSE <<>>)
          /\ serviceCredits' = AddCredits(serviceCredits, bundles[bundleId].items,
                                          patientId, orderId)
          /\ audit' = Append(audit, AuditRow("bundle.purchase", "order", orderId))
          /\ last' = Call("purchase", "ok", orderId, 0, 0, 0)
          /\ UNCHANGED <<appts, reminders, creditBalance, now, txs>>

(***************************************************************************)
(* The ledger routes: POST /payments and POST /waive.  An allocation       *)
(* carries the orders table, the ledger and the amount not yet applied.    *)
(***************************************************************************)
Max(a, b) == IF a > b THEN a ELSE b

Abs(a) == IF a < 0 THEN 0 - a ELSE a

\* Math.abs of what the waive rows of an order add up to
RECURSIVE SumWaives(_, _)
SumWaives(rows, orderId) ==
    IF rows = <<>> THEN 0
    ELSE (IF Head(rows).orderId = orderId /\ Head(rows).kind = "waive"
          THEN Head(rows).amount ELSE 0) + SumWaives(Tail(rows), orderId)

WaivedOn(rows, orderId) == Abs(SumWaives(rows, orderId))

Allocation(os, rows, remaining) ==
    [orders |-> os, ledger |-> rows, remaining |-> remaining]

\* the order a request names: the id itself, or no order when none was supplied
OrderIdOf(orderId) == IF orderId = undefined THEN 0 ELSE orderId

\* a plausible slip: the payment route subtracts the waive rows as well
AmountDueLessWaives(os, rows, k) ==
    os[k].totalDue - PaidOn(rows, k) - WaivedOn(rows, k)

\* POST /payments: const amountDue = order.totalDue - totalPaid
AmountDue(os, rows, k) == os[k].totalDue - PaidOn(rows, k)

\* POST /payments: what one order takes of the remaining amount
PayOrder(al, k, patientId, method) ==
    LET totalPaid == PaidOn(al.ledger, k)
        paymentForOrder == Min(al.remaining, AmountDue(al.orders, al.ledger, k))
        newStatus == IF totalPaid + paymentForOrder >= al.orders[k].totalDue
                     THEN "paid" ELSE "partially_paid"
    IN  IF paymentForOrder > 0
        THEN Allocation([al.orders EXCEPT ![k].status = newStatus],
                        Append(al.ledger, LedgerRow(patientId, k, "payment",
                                                    paymentForOrder, method)),
                        al.remaining - paymentForOrder)
        ELSE al

\* the orders findMany returns: of this patient, pending or partially_paid
Unpaid(os, patientId) ==
    {k \in DOMAIN os : /\ os[k].patientId = patientId
                       /\ os[k].status \in {"pending", "partially_paid"}}

\* POST /payments: the loop over unpaidOrders, oldest first, from order k on
RECURSIVE PayOldestFirst(_, _, _, _, _)
PayOldestFirst(al, unpaid, k, patientId, method) ==
    IF k > Len(al.orders) \/ al.remaining <= 0 THEN al
    ELSE PayOldestFirst(IF k \in unpaid THEN PayOrder(al, k, patientId, method)
                        ELSE al,
                        unpaid, k + 1, patientId, method)

\* POST /waive: Math.max(0, order.totalDue - totalPaid - totalWaived)
WaiveAmountDue(os, rows, k) ==
    Max(0, os[k].totalDue - PaidOn(rows, k) - WaivedOn(rows, k))

\* POST /waive: what one order takes of the remaining waiver
WaiveOrder(al, k, patientId) ==
    LET totalPaid == PaidOn(al.ledger, k)
        totalWaived == WaivedOn(al.ledger, k)
        waiveForOrder == Min(al.remaining, WaiveAmountDue(al.orders, al.ledger, k))
        newStatus == IF totalPaid + totalWaived + waiveForOrder >= al.orders[k].totalDue
                     THEN "paid" ELSE "partially_paid"
    IN  IF waiveForOrder > 0
        THEN Allocation([al.orders EXCEPT ![k].status = newStatus],
                        Append(al.ledger, LedgerRow(patientId, k, "waive",
                                                    0 - waiveForOrder, "cash")),
                        al.remaining - waiveForOrder)
        ELSE al

\* POST /waive: the loop over otherUnpaidOrders, oldest first, from order k on
RECURSIVE WaiveOldestFirst(_, _, _, _)
WaiveOldestFirst(al, others, k, patientId) ==
    IF k > Len(al.orders) \/ al.remaining <= 0 THEN al
    ELSE WaiveOldestFirst(IF k \in others THEN WaiveOrder(al, k, patientId)
                          ELSE al,
                          others, k + 1, patientId)


\* a plausible slip: the credit entry written whether or not anything remains
OverflowRowsAlways(patientId, remaining, method) ==
    <<LedgerRow(patientId, 0, "credit", remaining, method)>>

\* if (remaining > 0): the credit entry of what no order took
OverflowRows(patientId, remaining, method) ==
    IF remaining > 0
    THEN <<LedgerRow(patientId, 0, "credit", remaining, method)>>
    ELSE <<>>

\* if (remaining > 0): creditBalance: { increment: remaining }
OverflowBalance(cb, patientId, remaining) ==
    IF remaining > 0
    THEN [cb EXCEPT ![patientId] = cb[patientId] + remaining]
    ELSE cb

\* a plausible slip: the statements run outside a transaction, so what was
\* written before the error stays
RollbackNothing(before, written) == written

\* prisma.$transaction: an error thrown by a statement aborts the
\* transaction, and the table is as it was before the call
Rollback(before, written) == before

\* POST /payments.  The entry the route returns is written last, for the
\* whole amount, and names the order of the request: when that order does not
\* exist, findUnique finds nothing, the whole amount is written as patient
\* credit, and then the insertion of the entry breaks ledger_orderId_fkey and
\* the transaction is rolled back.
LedgerPayment(patientId, amount, method, orderId) ==
    IF orderId # undefined /\ orderId \notin DOMAIN orders
    THEN /\ creditBalance' = Rollback(creditBalance,
                                  OverflowBalance(creditBalance, patientId, amount))
         /\ ledger' = Rollback(ledger,
                           ledger \o OverflowRows(patientId, amount, method))
         /\ last' = Call("payment", "InternalError", OrderIdOf(orderId), 0, 0, 0)
         /\ UNCHANGED <<appts, orders, reminders, serviceCredits, audit, now, txs>>
    ELSE
      LET al0 == Allocation(orders, ledger, amount)
          al == IF orderId # undefined
                THEN PayOrder(al0, orderId, patientId, method)
                ELSE PayOldestFirst(al0, Unpaid(orders, patientId), 1,
                                    patientId, method)
      IN  /\ orders' = al.orders
          /\ creditBalance' = OverflowBalance(creditBalance, patientId, al.remaining)
          /\ ledger' = al.ledger
                \o OverflowRows(patientId, al.remaining, method)
                \o <<LedgerRow(patientId, OrderIdOf(orderId), "payment",
                                amount, method)>>
          /\ last' = Call("payment", "ok", OrderIdOf(orderId), 0, 0, 0)
          /\ UNCHANGED <<appts, reminders, serviceCredits, audit, now, txs>>

\* POST /waive
LedgerWaive(patientId, amount, orderId) ==
    IF orderId \notin DOMAIN orders
    THEN /\ last' = Call("waive", "NotFound", orderId, 0, 0, 0)
         /\ UNCHANGED <<appts, billing, audit, now, txs>>
    ELSE
      LET al0 == Allocation(orders, ledger, amount)
          al1 == WaiveOrder(al0, orderId, patientId)
          al == IF al1.remaining > 0
                THEN WaiveOldestFirst(al1,
                         Unpaid(al1.orders, patientId) \ {orderId}, 1, patientId)
                ELSE al1
      IN  /\ orders' = al.orders
          /\ creditBalance' = OverflowBalance(creditBalance, patientId, al.remaining)
          /\ ledger' = al.ledger \o OverflowRows(patientId, al.remaining, "cash")
          /\ last' = Call("waive", "ok", orderId, 0, 0, 0)
          /\ UNCHANGED <<appts, reminders, serviceCredits, audit, now, txs>>

\* POST /return: money handed back out of the patient's credit
LedgerReturn(patientId, amount, method) ==
    IF patientId \notin Patients
    THEN /\ last' = Call("return", "NotFound", 0, 0, 0, 0)
         /\ UNCHANGED <<appts, billing, audit, now, txs>>
    ELSE IF creditBalance[patientId] < amount
    THEN /\ last' = Call("return", "InsufficientCredit", 0, 0, 0, 0)
         /\ UNCHANGED <<appts, billing, audit, now, txs>>
    ELSE /\ creditBalance' = [creditBalance EXCEPT ![patientId] = @ - amount]
         /\ ledger' = Append(ledger, LedgerRow(patientId, 0, "return",
                                               0 - amount, method))
         /\ audit' = Append(audit, AuditRow("return.create", "ledger",
                                            Len(ledger) + 1))
         /\ last' = Call("return", "ok", 0, 0, 0, 0)
         /\ UNCHANGED <<appts, orders, reminders, serviceCredits, now, txs>>

\* createCreditNote (POST /credit-notes): a negative credit entry, which may
\* name an order; patients.creditBalance is not written
CreateCreditNote(patientId, orderId, amount) ==
    IF orderId # undefined /\ orderId \notin DOMAIN orders
    THEN /\ last' = Call("creditNote", "InternalError", OrderIdOf(orderId), 0, 0, 0)
         /\ UNCHANGED <<appts, billing, audit, now, txs>>
    ELSE /\ ledger' = Append(ledger, LedgerRow(patientId, OrderIdOf(orderId),
                                               "credit", 0 - Abs(amount), "cash"))
         /\ audit' = Append(audit, AuditRow("credit.create", "ledger",
                                            Len(ledger) + 1))
         /\ last' = Call("creditNote", "ok", OrderIdOf(orderId), 0, 0, 0)
         /\ UNCHANGED <<appts, orders, reminders, serviceCredits, creditBalance,
                        now, txs>>

\* recordPayment (POST /patients/:id/payments): the payment entry is written
\* first, then the status of the order it names is recomputed from the
\* order's payment entries alone
RecordPayment(patientId, orderId, amount, method) ==
    IF orderId # undefined /\ orderId \notin DOMAIN orders
    THEN /\ last' = Call("recordPayment", "InternalError", OrderIdOf(orderId),
                         0, 0, 0)
         /\ UNCHANGED <<appts, billing, audit, now, txs>>
    ELSE
      LET rows == Append(ledger, LedgerRow(patientId, OrderIdOf(orderId),
                                           "payment", amount, method))
          totalPayments == PaidOn(rows, orderId)
          newStatus == IF totalPayments >= orders[orderId].totalDue THEN "paid"
                       ELSE IF totalPayments > 0 THEN "partially_paid"
                       ELSE "pending"
      IN  /\ ledger' = rows
          /\ orders' = IF orderId # undefined
                       THEN [orders EXCEPT ![orderId].status = newStatus]
                       ELSE orders
          /\ audit' = Append(audit, AuditRow("payment.record", "ledger",
                                             Len(ledger) + 1))
          /\ last' = Call("recordPayment", "ok", OrderIdOf(orderId), 0, 0, 0)
          /\ UNCHANGED <<appts, reminders, serviceCredits, creditBalance, now, txs>>

(***************************************************************************)
(* The clock.                                                              *)
(***************************************************************************)
Tick ==
    /\ \E t \in Clock : t > now /\ now' = t
    /\ last' = Call("tick", "ok", 0, 0, 0, 0)
    /\ UNCHANGED <<appts, billing, audit, txs>>

(***************************************************************************)
(* Initial states.                                                         *)
(***************************************************************************)
IdleTxs == [p \in 1 .. NumProcs |-> [pc |-> "idle", doctorId |-> 0,
                                     start |-> 0, end |-> 0]]

Init ==
    /\ appts = <<>>
    /\ orders = <<>>
    /\ ledger = <<>>
    /\ reminders = <<>>
    /\ serviceCredits = <<>>
    /\ creditBalance = [p \in Patients |-> 0]
    /\ audit = <<>>
    /\ now = 0
    /\ last = NoCall
    /\ txs = IdleTxs
    /\ req = NoReq

\* the slot 10:00-13:00 after k sequential createAppointment calls, one per
\* doctor 1..k, all of which were admitted
SeedAppts(k) ==
    [i \in 1 .. k |-> NewAppointment(1, i, 58, 58 + durationMinutes[2], 2,
                                     undefined)]

SeedAudit(k) ==
    [i \in 1 .. k |-> AuditRow("appointment.create", "appointment", i)]

InitCap ==
    /\ \E k \in {GlobalCapacity - 1, GlobalCapacity} :
          /\ appts = SeedAppts(k)
          /\ audit = SeedAudit(k)
    /\ orders = <<>>
    /\ ledger = <<>>
    /\ reminders = <<>>
    /\ serviceCredits = <<>>
    /\ creditBalance = [p \in Patients |-> 0]
    /\ now = 0
    /\ last = NoCall
    /\ txs = IdleTxs
    /\ req = NoReq

(***************************************************************************)
(* Capacity specification: create and cancel calls, one at a time, on a    *)
(* slot that already holds five or six appointments.  The requested doctor *)
(* is doctor 1 (booked in the slot) or the last doctor (not booked).       *)
(***************************************************************************)
CapDoctors == {1, GlobalCapacity + 1}

CapCreate ==
    \E d \in CapDoctors, s \in Starts, st \in SessionTypeIds :
        CreateAppointment(1, d, s, st, undefined)

CapCancel ==
    \E id \in DOMAIN appts : CancelAppointment(id)

NextCap ==
    /\ Len(audit) < GlobalCapacity + MaxCapOps
    /\ (CapCreate \/ CapCancel)
    /\ UNCHANGED req

SpecCap == InitCap /\ [][NextCap]_vars

(***************************************************************************)
(* Lifecycle specification: every operation on appointments, one call at a *)
(* time, from the empty database.                                          *)
(***************************************************************************)
LifeStarts == {58}
FinalPrices == {undefined, 100}
RecurrenceIds == {1}

Create ==
    /\ Len(appts) < MaxAppts
    /\ \E s \in LifeStarts, st \in SessionTypeIds \cup {3},
          r \in RecurrenceIds \cup {undefined} :
          CreateAppointment(1, 1, s, st, r)

Confirm ==
    \E id \in 1 .. MaxAppts, f \in FinalPrices, m \in {"cash", "service_credit"} :
        ConfirmAppointment(id, f, m)

Cancel ==
    \E id \in 1 .. MaxAppts : CancelAppointment(id)

Status ==
    \E id \in 1 .. MaxAppts, st \in {"completed", "no_show"} : PutStatus(id, st)

Future ==
    \E r \in RecurrenceIds : CancelFuture(r)

Purchase ==
    /\ Len(serviceCredits) < MaxPurchases
    /\ \E p \in Patients, b \in BundleIds \cup {3}, paid \in {undefined} :
          PurchaseBundle(p, b, paid)

Next ==
    /\ \/ Tick
       \/ /\ Len(audit) < MaxOps
          /\ (Create \/ Confirm \/ Cancel \/ Status \/ Future \/ Purchase)
    /\ UNCHANGED req

Spec == Init /\ [][Next]_vars

(***************************************************************************)
(* Billing specification: confirmations of three scheduled appointments of *)
(* patient 1 (catalog prices 150, 175 and 150), one call at a time, among  *)
(* untargeted payments, which leave patient credit, and bundle purchases,  *)
(* which leave service credits.                                            *)
(***************************************************************************)
\* the appointments of three admitted createAppointment calls
BillAppts ==
    <<NewAppointment(1, 1, 58, 58 + durationMinutes[1], 1, undefined),
      NewAppointment(1, 2, 58, 58 + durationMinutes[2], 2, undefined),
      NewAppointment(1, 3, 58, 58 + durationMinutes[1], 1, undefined)>>

InitBill ==
    /\ appts = BillAppts
    /\ audit = SeedAudit(Len(BillAppts))
    /\ orders = <<>>
    /\ ledger = <<>>
    /\ reminders = <<>>
    /\ serviceCredits = <<>>
    /\ creditBalance = [p \in Patients |-> 0]
    /\ now = 0
    /\ last = NoCall
    /\ txs = IdleTxs
    /\ req = NoReq

\* finalPrice of the request body: not supplied, 0, below and above the price
BillFinalPrices == {undefined, 0, 100, 175}
\* amounts of the untargeted payments
BillAmounts == {50, 200}

BillConfirm ==
    \E id \in DOMAIN appts, f \in BillFinalPrices, m \in {"cash", "service_credit"} :
        /\ (m = "service_credit" => f = undefined)
        /\ ConfirmAppointment(id, f, m)
        /\ req' = Req(req.n + 1, appts[id].patientId, 0, f, m)

BillPay ==
    \E amount \in BillAmounts :
        /\ LedgerPayment(1, amount, "cash", undefined)
        /\ req' = Req(req.n + 1, 1, undefined, amount, "cash")

BillPurchase ==
    /\ PurchaseBundle(1, 1, undefined)
    /\ req' = Req(req.n + 1, 1, 0, undefined, "cash")

NextBill ==
    /\ req.n < MaxBillOps
    /\ (BillConfirm \/ BillPay \/ BillPurchase)

SpecBill == InitBill /\ [][NextBill]_vars

(***************************************************************************)
(* Ledger specification: the appointments are confirmed in order, each     *)
(* fully paid or with 100 paid, and then payments and waivers of patient 1 *)
(* are served one at a time.  A request names no order, one of the orders, *)
(* or an order that does not exist.                                        *)
(***************************************************************************)
LedgerFinalPrices == {undefined, 100}
PayAmounts == {20, 120, 200}
WaiveAmounts == {30, 120, 200}

LedgerConfirm ==
    /\ req.n = 0
    /\ Len(orders) < Len(appts)
    /\ \E f \in LedgerFinalPrices : ConfirmAppointment(Len(orders) + 1, f, "cash")
    /\ UNCHANGED req

LedgerPay ==
    \E amount \in PayAmounts, o \in {undefined} \cup (1 .. Len(appts) + 1) :
        /\ LedgerPayment(1, amount, "cash", o)
        /\ req' = Req(req.n + 1, 1, o, amount, "cash")

LedgerWaiveReq ==
    \E amount \in WaiveAmounts, o \in 1 .. Len(appts) + 1 :
        /\ LedgerWaive(1, amount, o)
        /\ req' = Req(req.n + 1, 1, o, amount, "cash")

NextLedger ==
    \/ LedgerConfirm
    \/ /\ req.n < MaxLedgerOps
       /\ (LedgerPay \/ LedgerWaiveReq)

SpecLedger == InitBill /\ [][NextLedger]_vars

(***************************************************************************)
(* Account specification: every operation that writes, one call at a time, *)
(* on the three scheduled appointments of patient 1: create, confirm,      *)
(* cancel, the payment, waiver and return routes of the ledger, credit     *)
(* notes and recordPayment.  A request names no order, order 1, or an      *)
(* order that does not exist.                                              *)
(***************************************************************************)
\* the id of no order
NoSuchOrder == 9
AccountDoctors == {1, 4}
AccountSessionTypes == {1, 3}
\* requested start instants: 05:00 and 05:30
AccountStarts == {58, 59}
AccountAppointments == {1, 2}
AccountFinalPrices == {undefined, 100}
AccountOrders == {undefined, 1, NoSuchOrder}
AccountPayAmounts == {50}
AccountWaiveAmounts == {30}
AccountReturnAmounts == {20, 200}
AccountNoteAmounts == {20}

AccountCreate ==
    \E d \in AccountDoctors, s \in AccountStarts, st \in AccountSessionTypes :
        /\ CreateAppointment(1, d, s, st, undefined)
        /\ req' = CreateReq(req.n + 1, 1, d, s, st)

AccountConfirm ==
    \E id \in AccountAppointments, f \in AccountFinalPrices,
       m \in {"cash", "service_credit"} :
        /\ (m = "service_credit" => f = undefined)
        /\ ConfirmAppointment(id, f, m)
        /\ req' = Req(req.n + 1, 1, 0, f, m)

AccountCancel ==
    \E id \in AccountAppointments :
        /\ CancelAppointment(id)
        /\ req' = Req(req.n + 1, 1, 0, 0, "none")

AccountPay ==
    \E amount \in AccountPayAmounts, o \in AccountOrders :
        /\ LedgerPayment(1, amount, "cash", o)
        /\ req' = Req(req.n + 1, 1, o, amount, "cash")

AccountWaive ==
    \E amount \in AccountWaiveAmounts, o \in AccountOrders \ {undefined} :
        /\ LedgerWaive(1, amount, o)
        /\ req' = Req(req.n + 1, 1, o, amount, "cash")

AccountReturn ==
    \E amount \in AccountReturnAmounts :
        /\ LedgerReturn(1, amount, "cash")
        /\ req' = Req(req.n + 1, 1, undefined, amount, "cash")

AccountCreditNote ==
    \E amount \in AccountNoteAmounts, o \in AccountOrders :
        /\ CreateCreditNote(1, o, amount)
        /\ req' = Req(req.n + 1, 1, o, amount, "cash")

AccountRecordPayment ==
    \E amount \in AccountPayAmounts, o \in AccountOrders :
        /\ RecordPayment(1, o, amount, "cash")
        /\ req' = Req(req.n + 1, 1, o, amount, "cash")

NextAccount ==
    /\ req.n < MaxAccountOps
    /\ \/ AccountCreate
       \/ AccountConfirm
       \/ AccountCancel
       \/ AccountPay
       \/ AccountWaive
       \/ AccountReturn
       \/ AccountCreditNote
       \/ AccountRecordPayment

SpecAccount == InitBill /\ [][NextAccount]_vars

(***************************************************************************)
(* Duration specification: createAppointment called one at a time while    *)
(* the row of session type 1 holds a duration written to the table         *)
(* directly.  The admin routes accept durationMinutes from 1 up; the       *)
(* column is an INTEGER with no CHECK, so a row inserted or updated        *)
(* outside those routes may hold 0 or less.                                *)
(***************************************************************************)
\* session_types.durationMinutes of the row the requests name
RowDurations == {0 - 1, 0, 1}
DurationDoctors == {1, 4}
DurationStarts == {58, 59}

DurationCreate ==
    \E d \in DurationDoctors, s \in DurationStarts, duration \in RowDurations :
        LET start == RequestedStart(s)
            end == start + duration
        IN  /\ CreateTransaction(1, d, start, end, 1, undefined)
            /\ req' = CreateReq(req.n + 1, 1, d, s, 1)

DurationCancel ==
    /\ CancelAppointment(1)
    /\ req' = Req(req.n + 1, 1, 0, 0, "none")

NextDuration ==
    /\ req.n < MaxCapOps
    /\ (DurationCreate \/ DurationCancel)

SpecDuration == InitBill /\ [][NextDuration]_vars

(***************************************************************************)
(* Reminder specification: three scheduled appointments, starting at 05:00 *)
(* and 05:30 of the second day and at 17:00 of the third, are confirmed    *)
(* one call at a time while the clock advances.                            *)
(***************************************************************************)
RemindAppts ==
    <<NewAppointment(1, 1, 58, 58 + durationMinutes[1], 1, undefined),
      NewAppointment(1, 2, 59, 59 + durationMinutes[2], 2, undefined),
      NewAppointment(1, 3, 130, 130 + durationMinutes[1], 1, undefined)>>

\* instants at which the clock is observed: among them 15:00 of the first
\* day and 03:00 of the second, when reminders of the first appointment fall due
RemindClock == {0, 30, 54, 100, 128}

InitRemind ==
    /\ appts = RemindAppts
    /\ audit = SeedAudit(Len(RemindAppts))
    /\ orders = <<>>
    /\ ledger = <<>>
    /\ reminders = <<>>
    /\ serviceCredits = <<>>
    /\ creditBalance = [p \in Patients |-> 0]
    /\ now = 0
    /\ last = NoCall
    /\ txs = IdleTxs
    /\ req = NoReq

RemindTick ==
    /\ \E t \in RemindClock : t > now /\ now' = t
    /\ last' = Call("tick", "ok", 0, 0, 0, 0)
    /\ UNCHANGED <<appts, billing, audit, txs, req>>

RemindConfirm ==
    \E id \in DOMAIN appts, f \in LedgerFinalPrices :
        /\ ConfirmAppointment(id, f, "cash")
        /\ UNCHANGED req

NextRemind == RemindTick \/ RemindConfirm

SpecRemind == InitRemind /\ [][NextRemind]_vars

(***************************************************************************)
(* POST /recurrences: the recurrence row is inserted inside the route's    *)
(* transaction, and every weekly occurrence is then handed to              *)
(* createAppointment, which runs its own transaction on another            *)
(* connection.  The recurrence row is not committed until the loop has     *)
(* ended, so an occurrence that passes the two capacity checks breaks      *)
(* appointments_recurrenceId_fkey when its row is inserted; the loop       *)
(* catches the error and reports the occurrence among the conflicts.       *)
(***************************************************************************)
\* addWeeks(currentDate, 1)
Week == 336

\* a plausible slip: the recurrence row visible to createAppointment
OccurrenceOutcomeCommitted(db, doctorId, start, end) ==
    CreateOutcome(db, doctorId, start, end)

\* what createAppointment makes of one occurrence
OccurrenceOutcome(db, doctorId, start, end) ==
    IF CreateOutcome(db, doctorId, start, end) # "ok"
    THEN CreateOutcome(db, doctorId, start, end)
    ELSE "ForeignKey"

\* the while loop from currentDate on: the appointments table and the audit
\* log as the calls leave them, and the two lists of the response
RECURSIVE Expand(_, _, _, _, _, _, _)
Expand(ex, patientId, doctorId, sessionTypeId, currentDate, endDate, recurrenceId) ==
    IF currentDate > endDate THEN ex
    ELSE
      LET start == RequestedStart(currentDate)
          end == start + durationMinutes[sessionTypeId]
          outcome == OccurrenceOutcome(ex.appts, doctorId, start, end)
          next == IF outcome = "ok"
                  THEN [appts |-> Append(ex.appts,
                                     NewAppointment(patientId, doctorId, start, end,
                                                    sessionTypeId, recurrenceId)),
                        audit |-> Append(ex.audit,
                                     AuditRow("appointment.create", "appointment",
                                              Len(ex.appts) + 1)),
                        created |-> Append(ex.created, currentDate),
                        conflicts |-> ex.conflicts]
                  ELSE [ex EXCEPT !.conflicts = Append(ex.conflicts, currentDate)]
      IN  Expand(next, patientId, doctorId, sessionTypeId, currentDate + Week,
                 endDate, recurrenceId)

\* POST /recurrences for a session type that exists
CreateRecurrence(patientId, doctorId, sessionTypeId, startAt, endDate, recurrenceId) ==
    LET ex == Expand([appts |-> appts, audit |-> audit, created |-> <<>>,
                      conflicts |-> <<>>],
                     patientId, doctorId, sessionTypeId, startAt, endDate,
                     recurrenceId)
    IN  /\ appts' = ex.appts
        /\ audit' = Append(ex.audit, AuditRow("recurrence.create", "recurrence",
                                              recurrenceId))
        /\ last' = [op |-> "recurrence", result |-> "ok", id |-> recurrenceId,
                    doctorId |-> doctorId, startAt |-> startAt, endAt |-> endDate,
                    message |-> "", createdCount |-> Len(ex.created),
                    conflicts |-> ex.conflicts]
        /\ UNCHANGED <<billing, now, txs>>

(***************************************************************************)
(* Recurrence specification: on top of three appointments at 05:00 of the  *)
(* second day, series of weekly occurrences are requested one call at a    *)
(* time among single creates and cancels.                                  *)
(***************************************************************************)
\* the body of a recurrence request
RecurrenceReq(n, patientId, doctorId, startAt, sessionTypeId, endDate) ==
    [n |-> n, patientId |-> patientId, doctorId |-> doctorId,
     startAt |-> startAt, sessionTypeId |-> sessionTypeId, endDate |-> endDate]

RecurDoctors == {1, 4}
\* startAt of the request: 05:00 and 05:30 of the second day
RecurStarts == {58, 59}
\* endDate of the request: the day before the start, the instant of the
\* second occurrence at 05:00, and two days after the third
RecurEnds == {10, 58 + Week, 154 + 2 * Week}

RecurExpand ==
    \E d \in RecurDoctors, s \in RecurStarts, e \in RecurEnds :
        /\ CreateRecurrence(1, d, 1, s, e, req.n + 1)
        /\ req' = RecurrenceReq(req.n + 1, 1, d, s, 1, e)

RecurCreate ==
    \E d \in RecurDoctors, s \in RecurStarts :
        /\ CreateAppointment(1, d, s + Week, 1, undefined)
        /\ req' = CreateReq(req.n + 1, 1, d, s + Week, 1)

RecurCancel ==
    \E id \in DOMAIN appts :
        /\ CancelAppointment(id)
        /\ req' = Req(req.n + 1, 1, 0, 0, "none")

NextRecur ==
    /\ req.n < MaxCapOps
    /\ (RecurExpand \/ RecurCreate \/ RecurCancel)

SpecRecur == InitBill /\ [][NextRecur]_vars

(***************************************************************************)
(* startCronScheduler: the fallback delivery of reminders.  setInterval    *)
(* runs the callback every 15 minutes from the moment the process started; *)
(* the callback reads the pending reminders whose dueAt lies in the last   *)
(* five minutes and marks each of them sent.                               *)
(*                                                                         *)
(* In the cron specification the clock has a resolution of five minutes:   *)
(* the instant is now half hours and txs.minute minutes, and txs.phase is  *)
(* the minute, modulo 15, at which the callback runs.  The clock stops at  *)
(* CronHorizon, later than every dueAt by more than a polling period:      *)
(* nothing the callback reads can change after that.                       *)
(***************************************************************************)
\* the instant in minutes
Minutes(halfHours, minute) == 30 * halfHours + minute

\* findMany: status pending, dueAt: { gte: fiveMinutesAgo, lte: now }
DueReminders(rs, t) ==
    {k \in DOMAIN rs : /\ rs[k].status = "pending"
                       /\ Minutes(rs[k].dueAt, 0) >= t - 5
                       /\ Minutes(rs[k].dueAt, 0) <= t}

\* the callback of setInterval, its updates succeeding
CronPoll ==
    LET t == Minutes(now, txs.minute)
    IN  /\ t % 15 = txs.phase
        /\ ~txs.polled
        /\ reminders' = [k \in DOMAIN reminders |->
                            IF k \in DueReminders(reminders, t)
                            THEN [reminders[k] EXCEPT !.status = "sent"]
                            ELSE reminders[k]]
        /\ txs' = [txs EXCEPT !.polled = TRUE]
        /\ last' = Call("poll", "ok", 0, 0, 0, 0)
        /\ UNCHANGED <<appts, orders, ledger, serviceCredits, creditBalance,
                       audit, now, req>>

\* five minutes pass, once the callback due at this instant has run.  From
\* CronHorizon on, which is later than every dueAt by more than the window,
\* the clock keeps the half hour and only the minutes go round.
CronTick ==
    /\ Minutes(now, txs.minute) % 15 = txs.phase => txs.polled
    /\ now' = IF txs.minute = 25 /\ now < CronHorizon THEN now + 1 ELSE now
    /\ txs' = [txs EXCEPT !.minute = (txs.minute + 5) % 30, !.polled = FALSE]
    /\ last' = Call("tick", "ok", 0, 0, 0, 0)
    /\ UNCHANGED <<appts, billing, audit, req>>

\* one scheduled appointment at 05:00 of the second day; the process was
\* started 0, 5 or 10 minutes past a quarter of an hour
InitCron ==
    /\ appts = <<NewAppointment(1, 1, 58, 58 + durationMinutes[1], 1, undefined)>>
    /\ audit = SeedAudit(1)
    /\ orders = <<>>
    /\ ledger = <<>>
    /\ reminders = <<>>
    /\ serviceCredits = <<>>
    /\ creditBalance = [p \in Patients |-> 0]
    /\ now = 0
    /\ last = NoCall
    /\ \E ph \in {0, 5, 10} : txs = [phase |-> ph, minute |-> 0, polled |-> FALSE]
    /\ req = NoReq

CronConfirm ==
    /\ appts[1].status = "scheduled"
    /\ ConfirmAppointment(1, undefined, "cash")
    /\ UNCHANGED req

NextCron == CronPoll \/ CronTick \/ CronConfirm

SpecCron == InitCron /\ [][NextCron]_vars

\* the timer keeps firing and the callback keeps running
SpecCronFair == SpecCron /\ WF_vars(CronTick) /\ WF_vars(CronPoll)

(***************************************************************************)
(* getAvailability: the answer for one 30-minute slot of the requested     *)
(* day.  The slot and the appointments are converted to the same time zone *)
(* before they are compared, which leaves their order as it is.            *)
(***************************************************************************)
\* findMany: the non-cancelled appointments that start on the requested day
StartingOn(db, day) ==
    {i \in DOMAIN db : /\ db[i].startAt \div 48 = day
                       /\ db[i].status # "cancelled"}

\* a plausible slip: the places left, as API.md shows them
SlotCapacityLeft(globalCount) == GlobalCapacity - globalCount

\* globalCapacity: globalCount
SlotCapacity(globalCount) == globalCount

\* the entry pushed for the slot [slotStart, slotStart + 30 minutes)
SlotAvailability(db, doctorId, slotStart) ==
    LET slotEnd == slotStart + 1
        overlappingAppointments ==
            {i \in StartingOn(db, slotStart \div 48) :
                Conflicts(db[i], slotStart, slotEnd)}
        globalCount == Cardinality(overlappingAppointments)
        doctorBusy == /\ doctorId # undefined
                      /\ \E i \in overlappingAppointments : db[i].doctorId = doctorId
    IN  [globalCapacity |-> SlotCapacity(globalCount),
         doctorAvailable |-> IF doctorId # undefined THEN ~doctorBusy ELSE TRUE,
         available |-> globalCount < GlobalCapacity
                       /\ (doctorId = undefined \/ ~doctorBusy)]

\* GET /availability, read for one slot of its answer
GetAvailability(doctorId, slotStart) ==
    LET entry == SlotAvailability(appts, doctorId, slotStart)
    IN  /\ last' = [op |-> "availability", result |-> "ok", id |-> 0,
                    doctorId |-> doctorId, startAt |-> slotStart,
                    endAt |-> slotStart + 1,
                    message |-> "",
                    globalCapacity |-> entry.globalCapacity,
                    doctorAvailable |-> entry.doctorAvailable,
                    available |-> entry.available]
        /\ UNCHANGED <<appts, billing, audit, now, txs>>

(***************************************************************************)
(* Availability specification: appointments are created and cancelled on   *)
(* the third day, one call at a time, and the availability of the slots    *)
(* from 08:00 to 09:30 of that day is asked in between.                    *)
(***************************************************************************)
\* requested start instants: 08:00 and 08:30 of the third day
AvailStarts == {112, 113}
\* the slots read: 08:00, 08:30, 09:00 and 09:30 of the third day
AvailSlots == 112 .. 115
AvailDoctors == {1, 2}

AvailCreate ==
    /\ Len(appts) < MaxAppts
    /\ \E d \in AvailDoctors, s \in AvailStarts, st \in SessionTypeIds :
          CreateAppointment(1, d, s, st, undefined)

AvailCancel ==
    \E id \in DOMAIN appts :
        /\ appts[id].status = "scheduled"
        /\ CancelAppointment(id)

AvailGet ==
    \E d \in AvailDoctors \cup {undefined}, slot \in AvailSlots :
        GetAvailability(d, slot)

NextAvail ==
    /\ (AvailCreate \/ AvailCancel \/ AvailGet)
    /\ UNCHANGED req

SpecAvail == Init /\ [][NextAvail]_vars

(***************************************************************************)
(* Concurrency specification: createAppointment transactions that overlap  *)
(* in time.  prisma.$transaction opens an interactive transaction at the   *)
(* database's default isolation level (read committed): each statement     *)
(* reads what has been committed when it runs, and the inserted row is     *)
(* visible to the other transactions once the transaction commits.         *)
(***************************************************************************)
\* statement 1: the global count; the capacity error rolls the transaction back
TxCount(p, doctorId, startAt, sessionTypeId) ==
    LET start == startAt
        end == start + durationMinutes[sessionTypeId]
    IN  /\ txs[p].pc = "idle"
        /\ IF GlobalCount(appts, start, end) >= GlobalCapacity
           THEN /\ txs' = [txs EXCEPT ![p] = [pc |-> "rolledback",
                               doctorId |-> doctorId, start |-> start, end |-> end]]
                /\ last' = Call("create", "CapacityExceeded", 0, doctorId, start, end)
           ELSE /\ txs' = [txs EXCEPT ![p] = [pc |-> "counted",
                               doctorId |-> doctorId, start |-> start, end |-> end]]
                /\ last' = Call("count", "ok", 0, doctorId, start, end)
        /\ UNCHANGED <<appts, billing, audit, now>>

\* statement 2: the doctor's conflicting appointment, if any
TxFindDoctor(p) ==
    /\ txs[p].pc = "counted"
    /\ IF DoctorConflicts(appts, txs[p].doctorId, txs[p].start, txs[p].end)
       THEN /\ txs' = [txs EXCEPT ![p].pc = "rolledback"]
            /\ last' = Call("create", "ProviderConflict", 0, txs[p].doctorId,
                            txs[p].start, txs[p].end)
       ELSE /\ txs' = [txs EXCEPT ![p].pc = "checked"]
            /\ last' = Call("find", "ok", 0, txs[p].doctorId, txs[p].start,
                            txs[p].end)
    /\ UNCHANGED <<appts, billing, audit, now>>

\* statements 3 and 4 and the commit: the appointment and its audit row
TxInsert(p) ==
    /\ txs[p].pc = "checked"
    /\ appts' = Append(appts, NewAppointment(1, txs[p].doctorId, txs[p].start,
                                             txs[p].end, 1, undefined))
    /\ audit' = Append(audit, AuditRow("appointment.create", "appointment",
                                       Len(appts) + 1))
    /\ txs' = [txs EXCEPT ![p].pc = "committed"]
    /\ last' = Call("create", "ok", Len(appts) + 1, txs[p].doctorId,
                    txs[p].start, txs[p].end)
    /\ UNCHANGED <<billing, now>>

\* the database is empty, or holds five appointments of earlier calls
InitConc ==
    /\ \E k \in {0, GlobalCapacity - 1} :
          /\ appts = SeedAppts(k)
          /\ audit = SeedAudit(k)
    /\ orders = <<>>
    /\ ledger = <<>>
    /\ reminders = <<>>
    /\ serviceCredits = <<>>
    /\ creditBalance = [p \in Patients |-> 0]
    /\ now = 0
    /\ last = NoCall
    /\ txs = IdleTxs
    /\ req = NoReq

ConcDoctors == {1, GlobalCapacity, GlobalCapacity + 1}

NextConc ==
    /\ \E p \in 1 .. NumProcs :
          \/ \E d \in ConcDoctors, s \in Starts, st \in SessionTypeIds :
                TxCount(p, d, s, st)
          \/ TxFindDoctor(p)
          \/ TxInsert(p)
    /\ UNCHANGED req

SpecConc == InitConc /\ [][NextConc]_vars

(***************************************************************************)
(* Concurrent confirmations: confirmAppointment transactions that overlap  *)
(* in time, at read committed.  findUnique reads the appointment with its  *)
(* patient, findFirst reads a service credit, and the writes that follow   *)
(* wait for the row locks of a transaction that wrote the same rows first, *)
(* so the writes of one transaction take effect together at its commit.    *)
(* Nothing re-reads the appointment's status before the writes.            *)
(***************************************************************************)
IdleConfirmTxs ==
    [p \in 1 .. NumProcs |-> [pc |-> "idle", id |-> 0, method |-> "none",
                              balance |-> 0, credit |-> 0, quantity |-> 0]]

\* three scheduled appointments, and the bundle purchase yet to be made
InitConfirmConc ==
    /\ appts = BillAppts
    /\ audit = SeedAudit(Len(BillAppts))
    /\ orders = <<>>
    /\ ledger = <<>>
    /\ reminders = <<>>
    /\ serviceCredits = <<>>
    /\ creditBalance = [p \in Patients |-> 0]
    /\ now = 0
    /\ last = NoCall
    /\ txs = IdleConfirmTxs
    /\ req = NoReq

\* statement 1: findUnique and the state guard
TxFindAppointment(p, appointmentId, paymentMethod) ==
    /\ txs[p].pc = "idle"
    /\ IF ~Confirmable(appts[appointmentId].status)
       THEN /\ txs' = [txs EXCEPT ![p].pc = "rolledback", ![p].id = appointmentId,
                                  ![p].method = paymentMethod]
            /\ last' = Call("confirm", "InvalidState", appointmentId, 0, 0, 0)
       ELSE /\ txs' = [txs EXCEPT ![p].pc = "read", ![p].id = appointmentId,
                           ![p].method = paymentMethod,
                           ![p].balance = creditBalance[appts[appointmentId].patientId]]
            /\ last' = Call("find", "ok", appointmentId, 0, 0, 0)
    /\ UNCHANGED <<appts, billing, audit, now, req>>

\* statement 2 of the service_credit branch: findFirst
TxFindCredit(p) ==
    /\ txs[p].pc = "read"
    /\ txs[p].method = "service_credit"
    /\ LET a == appts[txs[p].id]
           available == {k \in DOMAIN serviceCredits :
               /\ serviceCredits[k].patientId = a.patientId
               /\ serviceCredits[k].sessionTypeId = a.sessionTypeId
               /\ serviceCredits[k].quantity > 0}
       IN  IF available = {}
           THEN /\ txs' = [txs EXCEPT ![p].pc = "rolledback"]
                /\ last' = Call("confirm", "InsufficientCredit", txs[p].id, 0, 0, 0)
           ELSE /\ \E k \in available :
                      txs' = [txs EXCEPT ![p].pc = "found", ![p].credit = k,
                                 ![p].quantity = serviceCredits[k].quantity]
                /\ last' = Call("findCredit", "ok", txs[p].id, 0, 0, 0)
    /\ UNCHANGED <<appts, billing, audit, now, req>>

\* the writes of the service_credit branch and the commit
TxCommitServiceCredit(p) ==
    /\ txs[p].pc = "found"
    /\ LET id == txs[p].id
           a == appts[id]
           servicePrice == price[a.sessionTypeId]
           orderId == Len(orders) + 1
       IN  /\ serviceCredits' = [serviceCredits EXCEPT
                                   ![txs[p].credit].quantity = txs[p].quantity - 1]
           /\ appts' = [appts EXCEPT ![id].status = ConfirmedStatus,
                                     ![id].finalPrice = servicePrice]
           /\ orders' = Append(orders, OrderRow(a.patientId, id, "appointment",
                                                servicePrice, "paid"))
           /\ ledger' = ledger \o
                 <<LedgerRow(a.patientId, orderId, "charge", servicePrice,
                             "service_credit"),
                   LedgerRow(a.patientId, orderId, "payment", servicePrice,
                             "service_credit")>>
           /\ reminders' = reminders \o generateReminders(id, a.startAt, now)
           /\ audit' = Append(audit, AuditRow("appointment.confirm", "appointment", id))
           /\ last' = Call("confirm", "ok", id, 0, 0, 0)
    /\ txs' = [txs EXCEPT ![p].pc = "committed"]
    /\ UNCHANGED <<creditBalance, now, req>>

\* the writes of the cash branch, finalPrice not supplied, and the commit
TxCommitCash(p) ==
    /\ txs[p].pc = "read"
    /\ txs[p].method = "cash"
    /\ LET id == txs[p].id
           a == appts[id]
           servicePrice == price[a.sessionTypeId]
           paidAmount == PaidAmount(undefined, servicePrice)
           creditToUse == CreditToUse(txs[p].balance, servicePrice)
           effectivePrice == servicePrice - creditToUse
           orderStatus == IF paidAmount < effectivePrice THEN "partially_paid"
                          ELSE "paid"
           orderId == Len(orders) + 1
       IN  /\ creditBalance' = [creditBalance EXCEPT ![a.patientId] =
                                    creditBalance[a.patientId] - creditToUse]
           /\ appts' = [appts EXCEPT ![id].status = ConfirmedStatus,
                                     ![id].finalPrice = servicePrice]
           /\ orders' = Append(orders, OrderRow(a.patientId, id, "appointment",
                                                servicePrice, orderStatus))
           /\ ledger' = ledger
                 \o (IF creditToUse > 0
                     THEN <<LedgerRow(a.patientId, 0, "credit", 0 - creditToUse,
                                      "cash")>>
                     ELSE <<>>)
                 \o <<LedgerRow(a.patientId, orderId, "charge", servicePrice, "cash")>>
                 \o (IF paidAmount > 0
                     THEN <<LedgerRow(a.patientId, orderId, "payment", paidAmount,
                                      "cash")>>
                     ELSE <<>>)
           /\ reminders' = reminders \o generateReminders(id, a.startAt, now)
           /\ audit' = Append(audit, AuditRow("appointment.confirm", "appointment", id))
           /\ last' = Call("confirm", "ok", id, 0, 0, 0)
    /\ txs' = [txs EXCEPT ![p].pc = "committed"]
    /\ UNCHANGED <<serviceCredits, now, req>>

\* the bundle is bought once, while no confirmation is in flight
ConcPurchase ==
    /\ serviceCredits = <<>>
    /\ \A p \in 1 .. NumProcs : txs[p].pc = "idle"
    /\ PurchaseBundle(1, 1, undefined)
    /\ UNCHANGED req

\* the appointments the concurrent confirmations name
ConcAppointments == {1, 3}

NextConfirmConc ==
    \/ ConcPurchase
    \/ \E p \in 1 .. NumProcs :
          \/ \E id \in ConcAppointments, m \in {"cash", "service_credit"} :
                TxFindAppointment(p, id, m)
          \/ TxFindCredit(p)
          \/ TxCommitServiceCredit(p)
          \/ TxCommitCash(p)

SpecConfirmConc == InitConfirmConc /\ [][NextConfirmConc]_vars

(***************************************************************************)
(* Concurrent payments: POST /payments transactions that name the same     *)
(* order and overlap in time, at read committed.  findUnique reads the     *)
(* order with its ledger entries; the entries the transaction inserts and  *)
(* the status it stores are computed from that reading, and nothing locks  *)
(* or re-reads the order before the writes.                                *)
(***************************************************************************)
IdlePayTxs ==
    [p \in 1 .. NumProcs |-> [pc |-> "idle", orderId |-> 0, amount |-> 0,
                              rows |-> <<>>, due |-> 0, applied |-> 0]]

\* three scheduled appointments, the first of them yet to be confirmed
InitPayConc ==
    /\ appts = BillAppts
    /\ audit = SeedAudit(Len(BillAppts))
    /\ orders = <<>>
    /\ ledger = <<>>
    /\ reminders = <<>>
    /\ serviceCredits = <<>>
    /\ creditBalance = [p \in Patients |-> 0]
    /\ now = 0
    /\ last = NoCall
    /\ txs = IdlePayTxs
    /\ req = NoReq

\* the order is created once, while no payment is in flight
PayConcConfirm ==
    /\ orders = <<>>
    /\ \A p \in 1 .. NumProcs : txs[p].pc = "idle"
    /\ \E f \in LedgerFinalPrices : ConfirmAppointment(1, f, "cash")
    /\ UNCHANGED req

\* statement 1: findUnique of the order, include: { ledgers: true }
TxReadOrder(p, amount, orderId) ==
    /\ txs[p].pc = "idle"
    /\ orderId \in DOMAIN orders
    /\ txs' = [txs EXCEPT ![p] = [pc |-> "read", orderId |-> orderId,
                                  amount |-> amount, rows |-> ledger,
                                  due |-> AmountDue(orders, ledger, orderId),
                                  applied |-> 0]]
    /\ last' = Call("find", "ok", orderId, 0, 0, 0)
    /\ UNCHANGED <<appts, billing, audit, now, req>>

\* the writes and the commit: the payment of the order and its status, both
\* computed from the entries read by statement 1, the credit of what
\* remains, and the entry for the whole amount
TxPay(p) ==
    /\ txs[p].pc = "read"
    /\ LET k == txs[p].orderId
           read == txs[p].rows
           al == PayOrder(Allocation(orders, read, txs[p].amount), k, 1, "cash")
       IN  /\ orders' = al.orders
           /\ creditBalance' = OverflowBalance(creditBalance, 1, al.remaining)
           /\ ledger' = ledger
                 \o SubSeq(al.ledger, Len(read) + 1, Len(al.ledger))
                 \o OverflowRows(1, al.remaining, "cash")
                 \o <<LedgerRow(1, k, "payment", txs[p].amount, "cash")>>
           /\ txs' = [txs EXCEPT ![p].pc = "committed",
                                 ![p].applied = txs[p].amount - al.remaining]
           /\ last' = Call("payment", "ok", k, 0, 0, 0)
    /\ UNCHANGED <<appts, reminders, serviceCredits, audit, now, req>>

\* amounts of the concurrent payments
ConcPayAmounts == {20, 50, 120}

NextPayConc ==
    \/ PayConcConfirm
    \/ \E p \in 1 .. NumProcs :
          \/ \E amount \in ConcPayAmounts : TxReadOrder(p, amount, 1)
          \/ TxPay(p)

SpecPayConc == InitPayConc /\ [][NextPayConc]_vars

(***************************************************************************)
(* Concurrent use of the patient's credit: POST /return transactions and   *)
(* cash confirmations of the same patient that overlap in time, at read    *)
(* committed.  Each reads patients.creditBalance first; the return then    *)
(* decrements the balance by its amount and the confirmation by the credit *)
(* it decided to use, whatever the balance has become in between.          *)
(***************************************************************************)
IdleCreditTxs ==
    [p \in 1 .. NumProcs |-> [pc |-> "idle", id |-> 0, method |-> "none",
                              balance |-> 0, credit |-> 0, quantity |-> 0,
                              amount |-> 0]]

InitCreditConc ==
    /\ appts = BillAppts
    /\ audit = SeedAudit(Len(BillAppts))
    /\ orders = <<>>
    /\ ledger = <<>>
    /\ reminders = <<>>
    /\ serviceCredits = <<>>
    /\ creditBalance = [p \in Patients |-> 0]
    /\ now = 0
    /\ last = NoCall
    /\ txs = IdleCreditTxs
    /\ req = NoReq

\* amounts of the payment that leaves the patient's credit
CreditConcPayAmounts == {50, 200}

\* the credit is paid in once, while nothing else is in flight
CreditConcPay ==
    /\ ledger = <<>>
    /\ \A p \in 1 .. NumProcs : txs[p].pc = "idle"
    /\ \E amount \in CreditConcPayAmounts : LedgerPayment(1, amount, "cash", undefined)
    /\ UNCHANGED req

\* POST /return, statement 1: findUnique of the patient's creditBalance and
\* the checks made on it
TxReadBalance(p, patientId, amount) ==
    /\ txs[p].pc = "idle"
    /\ IF creditBalance[patientId] < amount
       THEN /\ txs' = [txs EXCEPT ![p].pc = "rolledback", ![p].method = "return",
                                  ![p].id = patientId, ![p].amount = amount,
                                  ![p].balance = creditBalance[patientId]]
            /\ last' = Call("return", "InsufficientCredit", 0, 0, 0, 0)
       ELSE /\ txs' = [txs EXCEPT ![p].pc = "read", ![p].method = "return",
                                  ![p].id = patientId, ![p].amount = amount,
                                  ![p].balance = creditBalance[patientId]]
            /\ last' = Call("find", "ok", 0, 0, 0, 0)
    /\ UNCHANGED <<appts, billing, audit, now, req>>

\* POST /return, the writes and the commit: creditBalance: { decrement: amount },
\* the return entry and the audit row
TxReturn(p) ==
    /\ txs[p].pc = "read"
    /\ txs[p].method = "return"
    /\ creditBalance' = [creditBalance EXCEPT ![txs[p].id] = @ - txs[p].amount]
    /\ ledger' = Append(ledger, LedgerRow(txs[p].id, 0, "return",
                                          0 - txs[p].amount, "cash"))
    /\ audit' = Append(audit, AuditRow("return.create", "ledger", Len(ledger) + 1))
    /\ txs' = [txs EXCEPT ![p].pc = "committed"]
    /\ last' = Call("return", "ok", 0, 0, 0, 0)
    /\ UNCHANGED <<appts, orders, reminders, serviceCredits, now, req>>

\* amounts of the concurrent returns
ConcReturnAmounts == {20, 50}
\* the appointments the concurrent cash confirmations name
CreditConcAppointments == {1}

NextCreditConc ==
    \/ CreditConcPay
    \/ \E p \in 1 .. NumProcs :
          \/ \E amount \in ConcReturnAmounts : TxReadBalance(p, 1, amount)
          \/ TxReturn(p)
          \/ \E id \in CreditConcAppointments : TxFindAppointment(p, id, "cash")
          \/ TxCommitCash(p)

SpecCreditConc == InitCreditConc /\ [][NextCreditConc]_vars

(***************************************************************************)
(* Reference notions used by the properties.                               *)
(***************************************************************************)
\* the reference overlap test of two half-open intervals
RefOverlap(a, start, end) == a.startAt < end /\ a.endAt > start

\* ids of the non-cancelled appointments overlapping [start, end)
LiveOverlapping(db, start, end) ==
    {i \in DOMAIN db : db[i].status # "cancelled" /\ RefOverlap(db[i], start, end)}

\* the requested doctor holds a non-cancelled appointment overlapping [start, end)
DoctorBusy(db, doctorId, start, end) ==
    \E i \in LiveOverlapping(db, start, end) : db[i].doctorId = doctorId

\* the step is a createAppointment call that reached the capacity checks
CreateStep == last'.op = "create" /\ last'.result # "NotFound"

(***************************************************************************)
(* C2. Calls one at a time: a create whose interval overlaps 6 or more     *)
(* non-cancelled appointments is rejected with the global-capacity error   *)
(* and inserts nothing, whichever doctor is requested; with fewer than 6   *)
(* the global rule does not reject; cancelled appointments never count.    *)
(***************************************************************************)
C2_GlobalRule ==
    [][CreateStep =>
        LET n == Cardinality(LiveOverlapping(appts, last'.startAt, last'.endAt))
        IN  /\ (n >= 6 => last'.result = "CapacityExceeded" /\ appts' = appts)
            /\ (n < 6 => last'.result # "CapacityExceeded")]_vars

\* a create was rejected for capacity while a cancelled appointment overlaps it
C2_Witness ==
    /\ last.op = "create"
    /\ last.result = "CapacityExceeded"
    /\ \E i \in DOMAIN appts :
          appts[i].status = "cancelled" /\ RefOverlap(appts[i], last.startAt, last.endAt)

(***************************************************************************)
(* C3 as stated. Calls one at a time: a create for a doctor who already    *)
(* has a non-cancelled appointment overlapping the interval is rejected    *)
(* with the doctor-conflict error and inserts nothing; a cancelled or a    *)
(* merely touching appointment of that doctor does not block the call.     *)
(***************************************************************************)
C3_AsStated ==
    [][CreateStep =>
        LET busy == DoctorBusy(appts, last'.doctorId, last'.startAt, last'.endAt)
        IN  /\ (busy => last'.result = "ProviderConflict" /\ appts' = appts)
            /\ (~busy => last'.result # "ProviderConflict")]_vars

(***************************************************************************)
(* C3 amended. As C3, except that when 6 or more non-cancelled             *)
(* appointments overlap the interval the call of a busy doctor is rejected *)
(* with the global-capacity error instead; it inserts nothing either way.  *)
(***************************************************************************)
C3_DoctorRule ==
    [][CreateStep =>
        LET busy == DoctorBusy(appts, last'.doctorId, last'.startAt, last'.endAt)
            n == Cardinality(LiveOverlapping(appts, last'.startAt, last'.endAt))
        IN  /\ (busy => appts' = appts)
            /\ (busy /\ n < 6 => last'.result = "ProviderConflict")
            /\ (busy /\ n >= 6 => last'.result = "CapacityExceeded")
            /\ (~busy => last'.result # "ProviderConflict")]_vars

\* a create was rejected for the doctor's conflict in a slot that is not full,
\* while the same doctor also holds a cancelled appointment in the interval
C3_Witness ==
    /\ last.op = "create"
    /\ last.result = "ProviderConflict"
    /\ Cardinality(LiveOverlapping(appts, last.startAt, last.endAt)) < 6
    /\ \E i \in DOMAIN appts :
          /\ appts[i].doctorId = last.doctorId
          /\ appts[i].status = "cancelled"
          /\ RefOverlap(appts[i], last.startAt, last.endAt)

(***************************************************************************)
(* C4 as stated. A create that violates both rules (6 non-cancelled        *)
(* appointments overlap and the requested doctor is booked among them)     *)
(* fails with ProviderConflict: the provider rule takes precedence.        *)
(***************************************************************************)
C4_AsStated ==
    [][CreateStep
        /\ Cardinality(LiveOverlapping(appts, last'.startAt, last'.endAt)) >= 6
        /\ DoctorBusy(appts, last'.doctorId, last'.startAt, last'.endAt)
        => last'.result = "ProviderConflict"]_vars

(***************************************************************************)
(* C4 amended. A create that violates both rules fails with                *)
(* CapacityExceeded: the global rule is checked first and takes precedence.*)
(***************************************************************************)
C4_GlobalFirst ==
    [][CreateStep
        /\ Cardinality(LiveOverlapping(appts, last'.startAt, last'.endAt)) >= 6
        /\ DoctorBusy(appts, last'.doctorId, last'.startAt, last'.endAt)
        => last'.result = "CapacityExceeded"]_vars

\* a create for a booked doctor in a full slot was rejected for capacity
C4_Witness ==
    /\ last.op = "create"
    /\ last.result = "CapacityExceeded"
    /\ Cardinality(LiveOverlapping(appts, last.startAt, last.endAt)) >= 6
    /\ DoctorBusy(appts, last.doctorId, last.startAt, last.endAt)

(***************************************************************************)
(* Lifecycle properties.                                                   *)
(***************************************************************************)
\* the step is a call of the named operation on an existing appointment
CallOn(op) == last'.op = op /\ last'.id \in DOMAIN appts

\* the step wrote nothing but the outcome of the call
NothingWritten == UNCHANGED <<appts, billing, audit, now, txs>>

\* the rows a step appended to the ledger
NewLedgerRows == SubSeq(ledger', Len(ledger) + 1, Len(ledger'))

(***************************************************************************)
(* C5. After a successful confirmAppointment on a scheduled appointment    *)
(* the appointment's status is 'confirmed'.                                *)
(***************************************************************************)
C5_ConfirmSetsConfirmed ==
    [][CallOn("confirm") /\ last'.result = "ok"
        => appts'[last'.id].status = ConfirmedStatusExpected]_vars

(***************************************************************************)
(* C6. confirmAppointment on an appointment that is not 'scheduled' fails  *)
(* with an invalid-state error, creates no order, ledger entry, reminder   *)
(* or audit record, and leaves the appointment, the service credits and    *)
(* the creditBalance unchanged.                                            *)
(***************************************************************************)
C6_ConfirmNeedsScheduled ==
    [][CallOn("confirm") /\ appts[last'.id].status # "scheduled"
        => last'.result = "InvalidState" /\ NothingWritten]_vars

\* a confirm was refused on an appointment that holds an order already
C6_Witness ==
    /\ last.op = "confirm"
    /\ last.result = "InvalidState"
    /\ appts[last.id].status \in {"completed", "cancelled", "no_show"}
    /\ \E k \in DOMAIN orders : orders[k].appointmentId = last.id

(***************************************************************************)
(* C7. Across confirm, cancel, PUT /:id/status and cancel-future the       *)
(* status only moves scheduled->confirmed, confirmed->completed,           *)
(* confirmed->no_show, scheduled->cancelled or confirmed->cancelled.       *)
(***************************************************************************)
AllowedTransitions ==
    {<<"scheduled", "confirmed">>, <<"confirmed", "completed">>,
     <<"confirmed", "no_show">>, <<"scheduled", "cancelled">>,
     <<"confirmed", "cancelled">>}

C7_StatusTransitions ==
    [][\A i \in DOMAIN appts :
          appts'[i].status # appts[i].status
          => <<appts[i].status, appts'[i].status>> \in AllowedTransitions]_vars

(***************************************************************************)
(* C8. Scenario: an appointment whose total due is 175 is confirmed with   *)
(* 100 paid (order partially_paid) and then cancelled: the cancel          *)
(* succeeds, the appointment becomes cancelled and exactly one refund      *)
(* entry of amount -175 is appended for that order.                        *)
(***************************************************************************)
\* the appointment was just confirmed with 100 paid of 175 due
PartlyPaid175(id) ==
    /\ last.op = "confirm" /\ last.result = "ok" /\ last.id = id
    /\ \E k \in DOMAIN orders :
          /\ orders[k].appointmentId = id
          /\ orders[k].totalDue = 175
          /\ orders[k].status = "partially_paid"
          /\ PaidOn(ledger, k) = 100

C8_CancelAfterPartialPayment ==
    [][CallOn("cancel") /\ PartlyPaid175(last'.id)
        => /\ last'.result = "ok"
           /\ appts'[last'.id].status = "cancelled"
           /\ Len(NewLedgerRows) = 1
           /\ NewLedgerRows[1].kind = "refund"
           /\ NewLedgerRows[1].amount = 0 - 175]_vars

(***************************************************************************)
(* C9. cancelAppointment on a 'completed' appointment fails with an        *)
(* invalid-state error and changes nothing: the status stays completed,    *)
(* no reminder changes, no refund and no audit record is written.          *)
(***************************************************************************)
C9_CancelCompletedRefused ==
    [][CallOn("cancel") /\ appts[last'.id].status = "completed"
        => last'.result = "InvalidState" /\ NothingWritten]_vars

\* a cancel was refused on a completed appointment that has a pending
\* reminder and a settled order
C9_Witness ==
    /\ last.op = "cancel"
    /\ last.result = "InvalidState"
    /\ appts[last.id].status = "completed"
    /\ \E k \in DOMAIN reminders :
          reminders[k].appointmentId = last.id /\ reminders[k].status = "pending"
    /\ \E k \in DOMAIN orders :
          orders[k].appointmentId = last.id /\ orders[k].status = "paid"

(***************************************************************************)
(* C10. A successful cancelAppointment sets the appointment to cancelled,  *)
(* sets exactly its pending reminders to failed, appends exactly one       *)
(* refund of -(totalDue) for each of its orders that is paid or            *)
(* partially_paid and none for other orders, and writes one audit record,  *)
(* in one step.                                                            *)
(***************************************************************************)
C10_CancelEffects ==
    [][CallOn("cancel") /\ last'.result = "ok" =>
        LET id == last'.id
            refundable == {k \in DOMAIN orders :
                /\ orders[k].appointmentId = id
                /\ orders[k].status \in {"paid", "partially_paid"}}
        IN  /\ appts' = [appts EXCEPT ![id].status = "cancelled"]
            /\ DOMAIN reminders' = DOMAIN reminders
            /\ \A k \in DOMAIN reminders :
                  IF reminders[k].appointmentId = id /\ reminders[k].status = "pending"
                  THEN reminders'[k] = [reminders[k] EXCEPT !.status = "failed"]
                  ELSE reminders'[k] = reminders[k]
            /\ SubSeq(ledger', 1, Len(ledger)) = ledger
            /\ Len(NewLedgerRows) = Cardinality(refundable)
            /\ \A k \in refundable :
                  \E j \in DOMAIN NewLedgerRows :
                      /\ NewLedgerRows[j].orderId = k
                      /\ NewLedgerRows[j].kind = "refund"
                      /\ NewLedgerRows[j].amount = 0 - orders[k].totalDue
            /\ Len(audit') = Len(audit) + 1
            /\ audit'[Len(audit')].action = "appointment.cancel"
            /\ UNCHANGED <<orders, serviceCredits, creditBalance>>]_vars

\* a cancel succeeded on an appointment with a partially paid order: a
\* reminder of it is failed and the ledger ends with the refund of the order
C10_Witness ==
    /\ last.op = "cancel"
    /\ last.result = "ok"
    /\ appts[last.id].status = "cancelled"
    /\ \E k \in DOMAIN reminders :
          reminders[k].appointmentId = last.id /\ reminders[k].status = "failed"
    /\ \E k \in DOMAIN orders :
          /\ orders[k].appointmentId = last.id
          /\ orders[k].status = "partially_paid"
          /\ ledger # <<>>
          /\ ledger[Len(ledger)].kind = "refund"
          /\ ledger[Len(ledger)].orderId = k

(***************************************************************************)
(* Billing properties of confirmAppointment.                               *)
(***************************************************************************)
\* the step is a successful confirmation on the cash path
CashConfirmOk ==
    /\ last'.op = "confirm" /\ last'.result = "ok"
    /\ last'.id \in DOMAIN appts
    /\ req'.method = "cash"

\* the positions in a sequence of ledger rows of the rows of one kind
OfKind(rows, kind) == {j \in DOMAIN rows : rows[j].kind = kind}

\* the catalog price of the session type of an appointment
CatalogPrice(id) == price[appts[id].sessionTypeId]

\* the state after a successful cash confirmation of the request req: the
\* last order is the appointment's
ConfirmedWithCash ==
    /\ last.op = "confirm" /\ last.result = "ok"
    /\ req.method = "cash"
    /\ orders # <<>>
    /\ orders[Len(orders)].appointmentId = last.id

C13_PaymentIffPaid ==
    [][CashConfirmOk /\ req'.amount # undefined =>
        LET id == last'.id
            F == req'.amount
            P == CatalogPrice(id)
            B == creditBalance[appts[id].patientId]
            k == Len(orders) + 1
            new == NewLedgerRows
        IN  /\ (F > 0 => /\ Cardinality(OfKind(new, "payment")) = 1
                         /\ \A j \in OfKind(new, "payment") : new[j].amount = F)
            /\ (F = 0 => /\ OfKind(new, "payment") = {}
                         /\ (orders'[k].status = "paid" => B >= P))]_vars

(***************************************************************************)
(* C14. confirm with paymentMethod service_credit on a scheduled           *)
(* appointment: if the patient has no service credit with quantity > 0 for *)
(* the session type the call fails and changes nothing; otherwise the      *)
(* patient's total credit quantity for that session type decreases by      *)
(* exactly 1, an order with status paid and totalDue = catalog price is    *)
(* created, and exactly two ledger entries are appended for it, a charge   *)
(* then a payment, both of the catalog price and with method               *)
(* service_credit.                                                         *)
(***************************************************************************)
\* the credit units a patient holds for a session type
RECURSIVE CreditQuantity(_, _, _)
CreditQuantity(credits, patientId, sessionTypeId) ==
    IF credits = <<>> THEN 0
    ELSE (IF /\ Head(credits).patientId = patientId
             /\ Head(credits).sessionTypeId = sessionTypeId
          THEN Head(credits).quantity ELSE 0)
         + CreditQuantity(Tail(credits), patientId, sessionTypeId)

C14_ServiceCreditConfirm ==
    [][/\ CallOn("confirm")
       /\ req'.method = "service_credit"
       /\ appts[last'.id].status = "scheduled"
       =>
        LET id == last'.id
            pat == appts[id].patientId
            st == appts[id].sessionTypeId
            P == CatalogPrice(id)
            k == Len(orders) + 1
            usable == {c \in DOMAIN serviceCredits :
                /\ serviceCredits[c].patientId = pat
                /\ serviceCredits[c].sessionTypeId = st
                /\ serviceCredits[c].quantity > 0}
        IN  IF usable = {}
            THEN last'.result # "ok" /\ NothingWritten
            ELSE /\ last'.result = "ok"
                 /\ CreditQuantity(serviceCredits', pat, st)
                        = CreditQuantity(serviceCredits, pat, st) - 1
                 /\ Len(orders') = k
                 /\ SubSeq(orders', 1, Len(orders)) = orders
                 /\ orders'[k].appointmentId = id
                 /\ orders'[k].status = "paid"
                 /\ orders'[k].totalDue = P
                 /\ SubSeq(ledger', 1, Len(ledger)) = ledger
                 /\ NewLedgerRows =
                       <<LedgerRow(pat, k, "charge", P, "service_credit"),
                         LedgerRow(pat, k, "payment", P, "service_credit")>>]_vars

\* a confirmation consumed one of the two credit units of a purchased bundle
C14_Witness ==
    /\ last.op = "confirm" /\ last.result = "ok"
    /\ req.method = "service_credit"
    /\ CreditQuantity(serviceCredits, 1, appts[last.id].sessionTypeId) = 1
    /\ orders[Len(orders)].appointmentId = last.id
    /\ ledger[Len(ledger)].method = "service_credit"

(***************************************************************************)
(* C15. On the cash path of confirm with creditBalance B > 0 and catalog   *)
(* price P exactly min(B, P) is consumed: creditBalance decreases by       *)
(* min(B, P), one credit entry of amount -min(B, P) is appended, and the   *)
(* order is partially_paid exactly when the payment is less than           *)
(* P - min(B, P); with B = 0 no credit entry is written and creditBalance  *)
(* is unchanged.                                                           *)
(***************************************************************************)
\* what the rows of one kind add up to
RECURSIVE SumOfKind(_, _)
SumOfKind(rows, kind) ==
    IF rows = <<>> THEN 0
    ELSE (IF Head(rows).kind = kind THEN Head(rows).amount ELSE 0)
         + SumOfKind(Tail(rows), kind)

C15_CreditConsumed ==
    [][CashConfirmOk =>
        LET id == last'.id
            pat == appts[id].patientId
            P == CatalogPrice(id)
            B == creditBalance[pat]
            used == Min(B, P)
            k == Len(orders) + 1
            new == NewLedgerRows
            paid == SumOfKind(new, "payment")
        IN  /\ (B > 0 =>
                  /\ creditBalance' = [creditBalance EXCEPT ![pat] = B - used]
                  /\ Cardinality(OfKind(new, "credit")) = 1
                  /\ \A j \in OfKind(new, "credit") :
                        new[j].amount = 0 - used /\ new[j].patientId = pat
                  /\ (orders'[k].status = "partially_paid" <=> paid < P - used)
                  /\ (orders'[k].status = "paid" <=> paid >= P - used))
            /\ (B = 0 =>
                  /\ OfKind(new, "credit") = {}
                  /\ creditBalance' = creditBalance)]_vars

\* a balance of 50 went into an appointment priced 150 on which 100 was
\* paid: the order is paid, the balance is used up
C15_Witness ==
    /\ ConfirmedWithCash
    /\ req.amount = 100
    /\ CatalogPrice(last.id) = 150
    /\ creditBalance[1] = 0
    /\ orders[Len(orders)].status = "paid"
    /\ Len(ledger) >= 3
    /\ ledger[Len(ledger) - 2].kind = "credit"
    /\ ledger[Len(ledger) - 2].amount = 0 - 50

(***************************************************************************)
(* C16. Under any interleaving of confirmAppointment calls, two concurrent *)
(* confirms of the same scheduled appointment included, each appointment   *)
(* has at most one order and at most one charge ledger entry.              *)
(***************************************************************************)
\* the orders of an appointment
OrdersOf(id) == {k \in DOMAIN orders : orders[k].appointmentId = id}

\* the charge entries of the orders of an appointment
ChargesOf(id) ==
    {j \in DOMAIN ledger : ledger[j].kind = "charge" /\ ledger[j].orderId \in OrdersOf(id)}

C16_OneOrderPerAppointment ==
    \A id \in DOMAIN appts :
        Cardinality(OrdersOf(id)) <= 1 /\ Cardinality(ChargesOf(id)) <= 1

(***************************************************************************)
(* Properties of the ledger routes.                                        *)
(***************************************************************************)
\* the step is a payment or a waiver that was served
LedgerStep(ops) == last'.op \in ops /\ last'.result = "ok"

\* the rows a payment or waiver step allocated or turned into credit: the
\* new rows, apart from the entry for the whole amount that POST /payments
\* writes last and returns
AllocatedRows ==
    IF last'.op = "payment"
    THEN SubSeq(NewLedgerRows, 1, Len(NewLedgerRows) - 1)
    ELSE NewLedgerRows

\* what the rows of the kinds of an order add up to
RECURSIVE SumFor(_, _, _)
SumFor(rows, orderId, kinds) ==
    IF rows = <<>> THEN 0
    ELSE (IF Head(rows).orderId = orderId /\ Head(rows).kind \in kinds
          THEN Head(rows).amount ELSE 0) + SumFor(Tail(rows), orderId, kinds)

\* the amount the step applied to an order
AppliedTo(k) == Abs(SumFor(AllocatedRows, k, {"payment", "waive"}))

\* the amount the step applied to orders altogether
RECURSIVE AppliedUpTo(_)
AppliedUpTo(k) == IF k = 0 THEN 0 ELSE AppliedTo(k) + AppliedUpTo(k - 1)

\* what an order still owes: its total less its payment entries and less
\* the absolute sum of its waive entries
StillOwed(k) ==
    Max(0, orders[k].totalDue - PaidOn(ledger, k) - WaivedOn(ledger, k))

\* what the outstanding orders older than order k still owe together
RECURSIVE OwedBefore(_, _)
OwedBefore(outstanding, k) ==
    IF k <= 1 THEN 0
    ELSE (IF (k - 1) \in outstanding THEN StillOwed(k - 1) ELSE 0)
         + OwedBefore(outstanding, k - 1)

\* the share of amount A that order k gets when the outstanding orders are
\* served oldest first, each taking min(remaining amount, what it owes)
FifoShare(outstanding, k, A) ==
    IF k \in outstanding
    THEN Min(Max(0, A - OwedBefore(outstanding, k)), StillOwed(k))
    ELSE 0

(***************************************************************************)
(* C17. A payment with no target order is applied to the patient's pending *)
(* and partially_paid orders in ascending creation order, each receiving   *)
(* min(remaining amount, its amount due); each order reached becomes paid  *)
(* if fully covered and partially_paid otherwise.                          *)
(***************************************************************************)
C17_FifoAllocation ==
    [][LedgerStep({"payment"}) /\ req'.orderId = undefined =>
        LET outstanding == Unpaid(orders, req'.patientId)
        IN  \A k \in DOMAIN orders :
                LET share == FifoShare(outstanding, k, req'.amount)
                IN  /\ AppliedTo(k) = share
                    /\ (share > 0 =>
                          orders'[k].status = IF share = StillOwed(k) THEN "paid"
                                              ELSE "partially_paid")
                    /\ (share = 0 => orders'[k] = orders[k])]_vars

C19_AppliedWithinDue ==
    [][LedgerStep({"payment", "waive"}) =>
        /\ \A k \in DOMAIN orders : AppliedTo(k) <= StillOwed(k)
        /\ (req'.orderId # undefined =>
              AppliedTo(req'.orderId) = Min(req'.amount, StillOwed(req'.orderId)))]_vars

(***************************************************************************)
(* C20. When a payment or waiver names a target order and its amount       *)
(* exceeds what that order is due, the remainder goes to the patient's     *)
(* other non-settled orders oldest first, and only what remains after all  *)
(* of them are settled becomes patient credit.                             *)
(***************************************************************************)
C20_RemainderToOtherOrders ==
    [][LedgerStep({"payment", "waive"}) /\ req'.orderId # undefined =>
        LET pat == req'.patientId
            others == Unpaid(orders, pat) \ {req'.orderId}
        IN  /\ (creditBalance'[pat] > creditBalance[pat] =>
                  \A k \in others : orders'[k].status = "paid")
            /\ \A j, k \in others :
                  j < k /\ AppliedTo(k) > 0 => orders'[j].status = "paid"]_vars

(***************************************************************************)
(* C1. Whatever the interleaving of concurrent createAppointment calls on  *)
(* intervals that all overlap one another, at most 6 of the calls succeed  *)
(* in total and at most 1 succeeds for any single doctor.                  *)
(***************************************************************************)
\* the appointments that were admitted and not cancelled since
Live == {i \in DOMAIN appts : appts[i].status # "cancelled"}

\* every admitted appointment overlaps every other one
AllOverlap ==
    \A i, j \in Live : RefOverlap(appts[i], appts[j].startAt, appts[j].endAt)

C1_AtMostSix == AllOverlap => Cardinality(Live) <= 6

C1_AtMostOnePerDoctor ==
    AllOverlap =>
        \A d \in Doctors : Cardinality({i \in Live : appts[i].doctorId = d}) <= 1

C1_CapacityUnderConcurrency == C1_AtMostSix /\ C1_AtMostOnePerDoctor

(***************************************************************************)
(* Properties of the patient's credit and of the stored order status.      *)
(***************************************************************************)
\* what the credit entries of a patient add up to
RECURSIVE CreditEntries(_, _)
CreditEntries(rows, patientId) ==
    IF rows = <<>> THEN 0
    ELSE (IF Head(rows).patientId = patientId /\ Head(rows).kind = "credit"
          THEN Head(rows).amount ELSE 0) + CreditEntries(Tail(rows), patientId)

(***************************************************************************)
(* C21. Ledger conservation: in every state reached by payments, waivers,  *)
(* cash confirmations that consume credit, credit returns and credit       *)
(* notes, each patient's creditBalance equals the sum of the amounts of    *)
(* that patient's credit entries in the ledger.                            *)
(***************************************************************************)
C21_LedgerConservation ==
    \A p \in Patients : creditBalance[p] = CreditEntries(ledger, p)

\* the status an order's ledger history gives it
DerivedStatus(k) ==
    LET settled == PaidOn(ledger, k) + WaivedOn(ledger, k)
    IN  IF settled >= orders[k].totalDue THEN "paid"
        ELSE IF settled > 0 THEN "partially_paid"
        ELSE "pending"

(***************************************************************************)
(* C22. Idempotent status derivation: after a confirm, a payment (ledger   *)
(* route or recordPayment), a waiver or an order edit, the stored status   *)
(* of every order is the status recomputed from its ledger history: paid   *)
(* when payments plus absolute waives reach totalDue, partially_paid when  *)
(* they are positive but lower, pending when they are zero.                *)
(***************************************************************************)
C22_StatusDerived ==
    \A k \in DOMAIN orders : orders[k].status = DerivedStatus(k)

(***************************************************************************)
(* C23. Two payments that run concurrently against the same order never    *)
(* both apply amounts computed from the same amountDue: once both have     *)
(* committed, the amounts the two calls applied to the order total at most *)
(* what the order was due before them (the larger of the two amounts due   *)
(* they read), the excess having gone to credit.                           *)
(***************************************************************************)
C23_NoOverlappingAllocations ==
    \A p, q \in 1 .. NumProcs :
        /\ p # q
        /\ txs[p].pc = "committed" /\ txs[q].pc = "committed"
        /\ txs[p].orderId = txs[q].orderId
        => txs[p].applied + txs[q].applied <= Max(0, Max(txs[p].due, txs[q].due))

(***************************************************************************)
(* C24. Under any interleaving of credit returns and cash confirmations    *)
(* that consume credit for the same patient, creditBalance is never        *)
(* negative.                                                               *)
(***************************************************************************)
C24_CreditNeverNegative ==
    \A p \in Patients : creditBalance[p] >= 0

(***************************************************************************)
(* Properties of the audit log and of failed calls.                        *)
(***************************************************************************)
\* the operations that change the state when they succeed
WriteOps == {"create", "confirm", "cancel", "payment", "waive", "return"}

(***************************************************************************)
(* C25. Every successful create, confirm, cancel, payment allocation,      *)
(* waiver allocation and credit return writes exactly one audit record,    *)
(* in the transaction of the change.                                       *)
(***************************************************************************)
C25_OneAuditRecord ==
    [][last'.op \in WriteOps /\ last'.result = "ok"
        => Len(audit') = Len(audit) + 1]_vars

(***************************************************************************)
(* C26. When create, confirm, cancel, a payment or waiver allocation or a  *)
(* credit return fails, none of the call's writes is visible afterwards:   *)
(* appointments, orders, ledger entries, reminders, service credits,       *)
(* creditBalance and audit records are exactly as before the call.         *)
(***************************************************************************)
C26_FailureWritesNothing ==
    [][last'.op \in WriteOps /\ last'.result # "ok" => NothingWritten]_vars

\* a return of more than the patient's credit was refused, the patient
\* holding credit and the ledger holding entries
C26_Witness ==
    /\ last.op = "return"
    /\ last.result = "InsufficientCredit"
    /\ req.amount > creditBalance[1]
    /\ creditBalance[1] > 0
    /\ ledger # <<>>

(***************************************************************************)
(* C27. A payment or waiver that names an order which does not exist fails *)
(* with NotFound, reported to the caller as such, and leaves orders,       *)
(* ledger and creditBalance unchanged: the amount is neither allocated to  *)
(* other orders nor turned into patient credit.                            *)
(***************************************************************************)
C27_MissingOrderNotFound ==
    [][/\ last'.op \in {"payment", "waive", "recordPayment"}
       /\ req'.orderId # undefined
       /\ req'.orderId \notin DOMAIN orders
       => /\ last'.result = "NotFound"
          /\ UNCHANGED <<orders, ledger, creditBalance>>]_vars

DayBeforeDue(startAt) == (startAt - (startAt % 48)) - 48 + 30

\* two hours before an instant
TwoHoursDue(startAt) == startAt - 4

\* the rows a step appended to the reminders
NewReminders == SubSeq(reminders', Len(reminders) + 1, Len(reminders'))

\* a pending reminder of an appointment
Reminder(appointmentId, type, dueAt) ==
    [appointmentId |-> appointmentId, type |-> type, dueAt |-> dueAt,
     status |-> "pending"]

(***************************************************************************)
(* C30. A successful confirm at instant t creates a day_before reminder,   *)
(* due 15:00 on the calendar day before startAt, if and only if that due   *)
(* instant is later than t, and a two_hours_before reminder, due two hours *)
(* before startAt, if and only if that due instant is later than t, and no *)
(* other reminder; so an appointment that starts more than a day and nine  *)
(* hours after t gets exactly these two reminders, both pending.           *)
(***************************************************************************)
C30_RemindersAtConfirm ==
    [][CallOn("confirm") /\ last'.result = "ok" =>
        LET id == last'.id
            startAt == appts[id].startAt
            dayBefore == Reminder(id, "day_before", DayBeforeDue(startAt))
            twoHours == Reminder(id, "two_hours_before", TwoHoursDue(startAt))
        IN  /\ SubSeq(reminders', 1, Len(reminders)) = reminders
            /\ NewReminders =
                  (IF DayBeforeDue(startAt) > now THEN <<dayBefore>> ELSE <<>>)
                  \o (IF TwoHoursDue(startAt) > now THEN <<twoHours>> ELSE <<>>)
            /\ (startAt - now > 66 => NewReminders = <<dayBefore, twoHours>>)]_vars

\* an appointment starting more than a day and nine hours ahead was
\* confirmed and has its two reminders, while another, confirmed at the
\* instant its day_before reminder would fall due, has the later one only
C30_Witness ==
    /\ last.op = "confirm" /\ last.result = "ok"
    /\ \E id \in DOMAIN appts :
          /\ appts[id].startAt - now > 66
          /\ {k \in DOMAIN reminders : reminders[k].appointmentId = id} # {}
          /\ \A k \in DOMAIN reminders :
                reminders[k].appointmentId = id => reminders[k].dueAt > now
          /\ Cardinality({k \in DOMAIN reminders :
                             reminders[k].appointmentId = id}) = 2
    /\ \E id \in DOMAIN appts :
          /\ appts[id].status = ConfirmedStatus
          /\ Cardinality({k \in DOMAIN reminders :
                             reminders[k].appointmentId = id}) = 1
          /\ \E k \in DOMAIN reminders :
                /\ reminders[k].appointmentId = id
                /\ reminders[k].type = "two_hours_before"
                /\ reminders[k].dueAt = TwoHoursDue(appts[id].startAt)

(***************************************************************************)
(* Properties of getAvailability.                                          *)
(***************************************************************************)
(***************************************************************************)
(* C31. getAvailability reports for each slot the remaining global         *)
(* capacity, globalCapacity = 6 - (number of non-cancelled appointments    *)
(* overlapping the slot): a slot with no appointments has globalCapacity   *)
(* 6, doctorAvailable true and available true.                             *)
(***************************************************************************)
C31_RemainingCapacity ==
    last.op = "availability" =>
        LET n == Cardinality(LiveOverlapping(appts, last.startAt, last.endAt))
        IN  /\ last.globalCapacity = 6 - n
            /\ (n = 0 => last.doctorAvailable /\ last.available)

(***************************************************************************)
(* C32. createAppointment reports a global-capacity rejection with the     *)
(* message 'Capacity reached for this hour (6 appointments max).' and a    *)
(* doctor-conflict rejection with the message 'Doctor already has an       *)
(* appointment at this hour.'                                              *)
(***************************************************************************)
C32_RejectionMessages ==
    last.op = "create" =>
        /\ (last.result = "CapacityExceeded" =>
              last.message = "Capacity reached for this hour (6 appointments max).")
        /\ (last.result = "ProviderConflict" =>
              last.message = "Doctor already has an appointment at this hour.")

(***************************************************************************)
(* Properties of the recurrence expander.                                  *)
(***************************************************************************)
\* the weekly occurrences from startAt through endDate inclusive
Occurrences(startAt, endDate) ==
    {t \in startAt .. endDate : (t - startAt) % Week = 0}

\* the elements of a sequence
Range(seq) == {seq[k] : k \in DOMAIN seq}

(***************************************************************************)
(* C33. The recurrence expander attempts one create for every weekly       *)
(* occurrence from startAt through endDate inclusive, a failed occurrence  *)
(* does not prevent the later ones from being attempted, and createdCount  *)
(* plus the number of reported conflicts is the number of occurrences;     *)
(* every occurrence that satisfies both capacity rules is created rather   *)
(* than reported as a conflict.                                            *)
(***************************************************************************)
C33_EveryOccurrenceAttempted ==
    [][last'.op = "recurrence" =>
        LET occ == Occurrences(req'.startAt, req'.endDate)
            end(t) == t + durationMinutes[req'.sessionTypeId]
        IN  /\ last'.createdCount + Len(last'.conflicts) = Cardinality(occ)
            /\ Len(appts') = Len(appts) + last'.createdCount
            /\ \A t \in occ :
                  /\ Cardinality(LiveOverlapping(appts, t, end(t))) < 6
                  /\ ~DoctorBusy(appts, req'.doctorId, t, end(t))
                  => /\ t \notin Range(last'.conflicts)
                     /\ \E i \in DOMAIN appts' \ DOMAIN appts :
                           /\ appts'[i].startAt = t
                           /\ appts'[i].doctorId = req'.doctorId]_vars

(***************************************************************************)
(* Properties of the delivery of reminders.                                *)
(***************************************************************************)
\* reminder k is pending and its dueAt has passed
DuePending(k) ==
    /\ k \in DOMAIN reminders
    /\ reminders[k].status = "pending"
    /\ Minutes(reminders[k].dueAt, 0) <= Minutes(now, txs.minute)

\* reminder k has been marked sent or failed
Delivered(k) ==
    k \in DOMAIN reminders /\ reminders[k].status \in {"sent", "failed"}

(***************************************************************************)
(* C34. Under the cron scheduler, polling every 15 minutes and assumed to  *)
(* keep running with successful updates, every reminder that is still      *)
(* pending when its dueAt passes is eventually marked sent or failed: no   *)
(* due pending reminder stays pending forever.                             *)
(***************************************************************************)
C34_DueRemindersDelivered ==
    \A k \in 1 .. 2 : DuePending(k) ~> Delivered(k)

(***************************************************************************)
(* C35: in every state reached by create, confirm, cancel, PUT /:id/status *)
(* and cancel-future calls made one at a time, at most 6 non-cancelled     *)
(* appointments cover any instant, no doctor has two non-cancelled         *)
(* appointments that overlap, and no call makes a cancelled appointment    *)
(* non-cancelled again.                                                    *)
(***************************************************************************)
\* the non-cancelled appointments of db covering instant t
CoveringAt(db, t) ==
    {i \in DOMAIN db : /\ db[i].status # "cancelled"
                       /\ db[i].startAt <= t
                       /\ t < db[i].endAt}

CapacityKept(db) ==
    \A i \in DOMAIN db :
        LET covering == CoveringAt(db, db[i].startAt)
        IN  /\ Cardinality(covering) <= GlobalCapacity
            /\ \A j, k \in covering :
                   db[j].doctorId = db[k].doctorId => j = k

CancelledStays ==
    \A i \in DOMAIN appts :
        appts[i].status = "cancelled" => appts'[i].status = "cancelled"

C35_CounterSetInvariant ==
    [][CancelledStays /\ CapacityKept(appts')]_vars

(***************************************************************************)
(* Overlap specification: the two capacity queries of createAppointment    *)
(* evaluated, for every requested interval, on a table holding one         *)
(* non-cancelled appointment of doctor 1.  Empty intervals (a session type *)
(* of duration 0) are among the stored and the requested ones.             *)
(***************************************************************************)
Instants == 0 .. MaxInstant

InitOverlap ==
    /\ \E s \in Instants, e \in Instants :
          /\ s <= e
          /\ appts = <<NewAppointment(1, 1, s, e, 1, undefined)>>
    /\ orders = <<>>
    /\ ledger = <<>>
    /\ reminders = <<>>
    /\ serviceCredits = <<>>
    /\ creditBalance = [p \in Patients |-> 0]
    /\ audit = <<>>
    /\ now = 0
    /\ last = NoCall
    /\ txs = IdleTxs
    /\ req = NoReq

\* the where clauses of the two queries, applied to the stored appointment
OverlapQuery(start, end) ==
    /\ last' = [op |-> "conflicts", result |-> "ok", start |-> start,
                end |-> end,
                globalCount |-> GlobalCount(appts, start, end),
                doctorConflicts |-> DoctorConflicts(appts, 1, start, end)]
    /\ UNCHANGED <<appts, billing, audit, now, txs, req>>

NextOverlap ==
    \E start \in Instants, end \in Instants :
        start <= end /\ OverlapQuery(start, end)

SpecOverlap == InitOverlap /\ [][NextOverlap]_vars

(***************************************************************************)
(* C36: for a stored and a requested interval of positive length, each of  *)
(* the two queries of createAppointment matches the stored appointment     *)
(* exactly when existing.start < end and existing.end > start; an interval *)
(* that ends where the other starts is never matched.                      *)
(***************************************************************************)
PositiveLengths ==
    /\ last.op = "conflicts"
    /\ appts[1].startAt < appts[1].endAt
    /\ last.start < last.end

BackToBack ==
    appts[1].endAt = last.start \/ appts[1].startAt = last.end

C36_ConflictIsOverlap ==
    PositiveLengths =>
        /\ (last.globalCount = 1) <=> RefOverlap(appts[1], last.start, last.end)
        /\ last.doctorConflicts <=> RefOverlap(appts[1], last.start, last.end)
        /\ BackToBack => (last.globalCount = 0 /\ ~last.doctorConflicts)

\* a requested interval starting where the stored one ends, and one
\* enclosed by the stored one
C36_Witness ==
    /\ PositiveLengths
    /\ \/ appts[1].endAt = last.start /\ last.globalCount = 0
       \/ /\ appts[1].startAt < last.start
          /\ last.end < appts[1].endAt
          /\ last.globalCount = 1

(***************************************************************************)
(* C37: under any interleaving of service-credit confirmations of one      *)
(* patient and session type, every confirmation takes exactly one unit off *)
(* the stored quantity: the quantity is never below 0, and the units left  *)
(* plus the appointments confirmed with service credit are the units the   *)
(* patient bought.                                                         *)
(***************************************************************************)
\* the payment entries of the confirmations made with service credit
ServiceCreditConfirmations ==
    {j \in DOMAIN ledger : /\ ledger[j].kind = "payment"
                           /\ ledger[j].method = "service_credit"}

\* the units of the bundle purchases that created the service credit rows
UnitsBought == Len(serviceCredits) * bundles[1].items[1].quantity

C37_OneUnitPerConfirmation ==
    \A k \in DOMAIN serviceCredits :
        /\ serviceCredits[k].quantity >= 0
        /\ serviceCredits[k].quantity + Cardinality(ServiceCreditConfirmations)
               = UnitsBought

(***************************************************************************)
(* C38: in every state reached by confirmations, payments (the ledger      *)
(* route and recordPayment) and waivers served one at a time, the payment  *)
(* entries of an order plus the absolute amount of its waive entries do    *)
(* not exceed its totalDue.                                                *)
(***************************************************************************)
RECURSIVE RecordedAgainst(_, _)
RecordedAgainst(rows, orderId) ==
    IF rows = <<>> THEN 0
    ELSE (IF Head(rows).orderId = orderId /\ Head(rows).kind = "payment"
          THEN Head(rows).amount
          ELSE IF Head(rows).orderId = orderId /\ Head(rows).kind = "waive"
          THEN (IF Head(rows).amount < 0 THEN 0 - Head(rows).amount
                ELSE Head(rows).amount)
          ELSE 0)
         + RecordedAgainst(Tail(rows), orderId)

C38_NothingBeyondTotalDue ==
    \A k \in DOMAIN orders :
        RecordedAgainst(ledger, k) <= orders[k].totalDue

(***************************************************************************)
(* C39: one payment of amount A served by POST /payments appends payment   *)
(* and credit entries whose amounts add up to exactly A: each unit of the  *)
(* payment is recorded once, against an order or as overflow credit.       *)
(***************************************************************************)
C39_PaymentRecordedOnce ==
    [][LedgerStep({"payment"}) =>
        SumOfKind(NewLedgerRows, "payment") + SumOfKind(NewLedgerRows, "credit")
            = req'.amount]_vars

(***************************************************************************)
(* Delivery specification: the reminders of one appointment, delivered by  *)
(* the BullMQ worker or by the cron scheduler while the appointment is     *)
(* confirmed, has its status set and is cancelled.  The worker and the     *)
(* scheduler use the global client outside any transaction: each reads the *)
(* reminder and later updates it by id, and a cancellation may commit in   *)
(* between.                                                                *)
(***************************************************************************)
\* the instants observed: confirmation time and the two due instants
DeliverClock == {0, 30, 54}

IdleDelivery(mode) ==
    [mode |-> mode, queued |-> {}, pc |-> "idle", id |-> 0, due |-> {}]

InitDeliver ==
    /\ appts = <<NewAppointment(1, 1, 58, 58 + durationMinutes[1], 1, undefined)>>
    /\ audit = SeedAudit(1)
    /\ orders = <<>>
    /\ ledger = <<>>
    /\ reminders = <<>>
    /\ serviceCredits = <<>>
    /\ creditBalance = [p \in Patients |-> 0]
    /\ now = 0
    /\ last = NoCall
    /\ \E mode \in {"bullmq", "cron"} : txs = IdleDelivery(mode)
    /\ req = NoReq

\* scheduleReminders: a job per pending reminder due within 24 hours; an
\* id already queued is not queued again (jobId)
ScheduleReminders ==
    /\ txs.mode = "bullmq"
    /\ txs' = [txs EXCEPT !.queued = @ \cup
                  {k \in DOMAIN reminders : /\ reminders[k].status = "pending"
                                            /\ reminders[k].dueAt <= now + 48}]
    /\ last' = Call("schedule", "ok", 0, 0, 0, 0)
    /\ UNCHANGED <<appts, billing, audit, now, req>>

\* reminderWorker: findUnique and the status guard, once the delay is over
WorkerFind(k) ==
    /\ txs.mode = "bullmq"
    /\ txs.pc = "idle"
    /\ k \in txs.queued
    /\ reminders[k].dueAt <= now
    /\ IF reminders[k].status # "pending"
       THEN /\ txs' = [txs EXCEPT !.queued = @ \ {k}]
            /\ last' = Call("deliver", "AlreadyProcessed", k, 0, 0, 0)
       ELSE /\ txs' = [txs EXCEPT !.queued = @ \ {k}, !.pc = "read", !.id = k]
            /\ last' = Call("find", "ok", k, 0, 0, 0)
    /\ UNCHANGED <<appts, billing, audit, now, req>>

\* reminderWorker: prisma.reminder.update by id, status 'sent'
WorkerSent ==
    /\ txs.mode = "bullmq"
    /\ txs.pc = "read"
    /\ reminders' = [reminders EXCEPT ![txs.id].status = "sent"]
    /\ txs' = [txs EXCEPT !.pc = "idle", !.id = 0]
    /\ last' = Call("deliver", "ok", txs.id, 0, 0, 0)
    /\ UNCHANGED <<appts, orders, ledger, serviceCredits, creditBalance, audit,
                   now, req>>

\* reminderWorker: the catch block, prisma.reminder.update by id, 'failed'
WorkerFailed ==
    /\ txs.mode = "bullmq"
    /\ txs.pc = "read"
    /\ reminders' = [reminders EXCEPT ![txs.id].status = "failed"]
    /\ txs' = [txs EXCEPT !.pc = "idle", !.id = 0]
    /\ last' = Call("deliver", "Failed", txs.id, 0, 0, 0)
    /\ UNCHANGED <<appts, orders, ledger, serviceCredits, creditBalance, audit,
                   now, req>>

\* startCronScheduler: findMany of the pending reminders due in the window
CronFind ==
    /\ txs.mode = "cron"
    /\ txs.pc = "idle"
    /\ txs' = [txs EXCEPT !.pc = "found",
                          !.due = DueReminders(reminders, Minutes(now, 0))]
    /\ last' = Call("poll", "ok", 0, 0, 0, 0)
    /\ UNCHANGED <<appts, billing, audit, now, req>>

\* startCronScheduler: one turn of the loop, prisma.reminder.update by id
CronSend ==
    /\ txs.mode = "cron"
    /\ txs.pc = "found"
    /\ IF txs.due = {}
       THEN /\ txs' = [txs EXCEPT !.pc = "idle"]
            /\ last' = Call("poll", "done", 0, 0, 0, 0)
            /\ UNCHANGED reminders
       ELSE LET k == CHOOSE i \in txs.due : \A j \in txs.due : i <= j
            IN  /\ reminders' = [reminders EXCEPT ![k].status = "sent"]
                /\ txs' = [txs EXCEPT !.due = @ \ {k}]
                /\ last' = Call("deliver", "ok", k, 0, 0, 0)
    /\ UNCHANGED <<appts, orders, ledger, serviceCredits, creditBalance, audit,
                   now, req>>

DeliverTick ==
    /\ \E t \in DeliverClock :
          /\ t > now
          /\ \A u \in DeliverClock : u > now => t <= u
          /\ now' = t
    /\ last' = Call("tick", "ok", 0, 0, 0, 0)
    /\ UNCHANGED <<appts, billing, audit, txs, req>>

DeliverConfirm ==
    /\ ConfirmAppointment(1, undefined, "cash")
    /\ UNCHANGED req

DeliverStatus ==
    /\ \E st \in {"completed", "no_show"} : PutStatus(1, st)
    /\ UNCHANGED req

DeliverCancel ==
    /\ CancelAppointment(1)
    /\ UNCHANGED req

NextDeliver ==
    \/ ScheduleReminders
    \/ \E k \in DOMAIN reminders : WorkerFind(k)
    \/ WorkerSent
    \/ WorkerFailed
    \/ CronFind
    \/ CronSend
    \/ DeliverTick
    \/ /\ Len(audit) < MaxOps
       /\ (DeliverConfirm \/ DeliverStatus \/ DeliverCancel)

SpecDeliver == InitDeliver /\ [][NextDeliver]_vars

(***************************************************************************)
(* C40: under any interleaving of the delivery worker or the cron          *)
(* scheduler with cancelAppointment, the status of a reminder only moves   *)
(* from pending to sent or from pending to failed; sent and failed are     *)
(* final, and a reminder that a cancellation marked failed is never marked *)
(* sent afterwards.                                                        *)
(***************************************************************************)
C40_ReminderStatusFinal ==
    [][\A k \in DOMAIN reminders :
          reminders'[k].status # reminders[k].status =>
              /\ reminders[k].status = "pending"
              /\ reminders'[k].status \in {"sent", "failed"}]_vars

====
